---------------------------- MODULE Spec2Model ----------------------------
(***************************************************************************)
(* A state-machine model of the sfdn_oracle program (src/solana-oracle.rs): *)
(* the publisher stake ledger, the price aggregator and the governance      *)
(* engine.  Every instruction handler is one action.  For each handler an   *)
(* operator <handler>_run gives the outcome of a call in the current state: *)
(* the error it returns ("Ok" for none) and, for an error, whether the      *)
(* handler had by then written to an account (dirty) or completed a token   *)
(* transfer (xfer).  A call that returns an error changes no account (the   *)
(* runtime discards the writes of a failed instruction); a successful call  *)
(* is recorded in `last`.                                                   *)
(*                                                                         *)
(* Token amounts are counted in whole tokens (10^9 base units): TLC's       *)
(* integers are 32 bits wide and MIN_STAKE_AMOUNT is 10^10 base units.      *)
(***************************************************************************)
EXTENDS Integers, Sequences, FiniteSets, TLC

(***************************************************************************)
(* Program constants                                                       *)
(***************************************************************************)
MIN_STAKE_AMOUNT == 10000
STALENESS_THRESHOLD == 30
HALTED_THRESHOLD == 60
OUTLIER_MAD_MULTIPLIER == 3
EMA_ALPHA_SCALED == 100000
EMA_SCALE == 1000000
UNBONDING_PERIOD == 604800

(***************************************************************************)
(* Bounds of the model                                                     *)
(***************************************************************************)
\* capacity of a feed's submission table (100 in the source, scaled down so
\* that a full table is reachable with NumPublishers publishers)
MAX_PUBLISHERS == 3
NumPublishers == 4
NumFeeds == 2
MaxProposals == 2
\* the clock stops advancing at this slot (governance), or after this many
\* slots (stake ledger, price feed)
MaxSlot == 3
MaxLedgerTicks == 2
MaxFeedTicks == 1
MaxOpsTicks == 1
MaxAggregateTicks == 1
MaxSnapshotTicks == 1
\* at most this many votes are cast on one proposal
MaxVotes == 2
\* the token balance of each voter
VoteWeight == 150000
\* a publisher is slashed at most this many times
MaxSlashes == 1
\* at most this many observations are folded into one feed's EMA
MaxObservations == 2
\* the clock reading at initialization and each publisher's token balance
GenesisTime == 1000000
GenesisSlot == 1
InitialWallet == 30000

Publishers == 1..NumPublishers
Feeds == 1..NumFeeds
\* Pubkey::default(), the publisher key of a slot never written
NoKey == 0 * NumPublishers
\* an Option<Account> argument that is None
NoAccount == 0 * NumFeeds

VARIABLES
    now,              \* Clock::get().unix_timestamp
    slot,             \* Clock::get().slot
    global_state,     \* GlobalState
    token_vault,      \* TokenVault
    governance_state, \* GovernanceState
    proposals,        \* the Proposal accounts, by proposal_id + 1
    publishers,       \* the PublisherAccount of each publisher key
    feeds,            \* the PriceAccount of each product
    tokens,           \* token balances: the vault's and each publisher's
    last              \* the last successful instruction

vars == <<now, slot, global_state, token_vault, governance_state, proposals,
          publishers, feeds, tokens, last>>

(***************************************************************************)
(* Arithmetic helpers                                                      *)
(***************************************************************************)
Abs(x) == IF x < 0 THEN -x ELSE x

Max(a, b) == IF a >= b THEN a ELSE b

RECURSIVE SumSeq(_)
\* sum of a sequence of numbers, as Iterator::sum
SumSeq(s) == IF s = <<>> THEN 0 ELSE Head(s) + SumSeq(Tail(s))

RECURSIVE SumOver(_, _)
\* sum of f[x] over the x in S
SumOver(f, S) ==
    IF S = {} THEN 0
    ELSE LET x == CHOOSE y \in S : TRUE IN f[x] + SumOver(f, S \ {x})

\* (v as f64).sqrt() as u64, exact for the values of the model
Isqrt(v) == CHOOSE r \in 0..v : r * r <= v /\ (r + 1) * (r + 1) > v

(***************************************************************************)
(* Outcome of a call                                                       *)
(***************************************************************************)
Done == [err |-> "Ok", dirty |-> FALSE, xfer |-> FALSE]

\* an error returned before any account write and any transfer
Fail(e) == [err |-> e, dirty |-> FALSE, xfer |-> FALSE]

\* an error returned after account writes (dirty) or a transfer (xfer)
FailLate(e, dirty, xfer) == [err |-> e, dirty |-> dirty, xfer |-> xfer]

Called(op, id, info) == [op |-> op, id |-> id, info |-> info]

\* parameters given to initialize_program
InitRewardRate == 5
InitProposalThreshold == 1000
InitVotingPeriod == 0
InitQuorumPercentage == 20
InitTimelockDuration == 10
InitTotalSupply == 1000000

NoPublisher ==
    [registered |-> FALSE, staked_amount |-> 0, reputation |-> 0,
     registered_at |-> 0, slash_count |-> 0, last_slash_slot |-> 0,
     unbonding_amount |-> 0, unbonding_start |-> 0]

NoFeed ==
    [created |-> FALSE,
     aggregate |-> [price |-> 0, confidence |-> 0, exponent |-> 0,
                    timestamp |-> 0, slot |-> 0, status |-> "Unknown"],
     publishers |-> <<>>, publisher_count |-> 0, min_publishers |-> 0,
     last_update_slot |-> 0,
     ema |-> [ema_price |-> 0, ema_confidence |-> 0, num_observations |-> 0],
     exponent |-> 0]

(***************************************************************************)
(* Initial state: the accounts right after initialize_program               *)
(***************************************************************************)
Init ==
    /\ now = GenesisTime
    /\ slot = GenesisSlot
    /\ global_state = [authority |-> "authority", paused |-> FALSE,
                       total_products |-> 0, total_publishers |-> 0]
    /\ token_vault = [total_staked |-> 0, total_rewards_distributed |-> 0,
                      reward_rate |-> InitRewardRate,
                      last_distribution_slot |-> GenesisSlot]
    /\ governance_state = [proposal_threshold |-> InitProposalThreshold,
                           voting_period |-> InitVotingPeriod,
                           quorum_percentage |-> InitQuorumPercentage,
                           timelock_duration |-> InitTimelockDuration,
                           proposal_count |-> 0,
                           total_supply |-> InitTotalSupply]
    /\ proposals = <<>>
    /\ publishers = [p \in Publishers |-> NoPublisher]
    /\ feeds = [f \in Feeds |-> NoFeed]
    /\ tokens = [vault |-> 0, wallet |-> [p \in Publishers |-> InitialWallet]]
    /\ last = Called("initialize_program", 0, 0)

(***************************************************************************)
(* The clock: a new slot, dt seconds later                                  *)
(***************************************************************************)
Tick(dt) ==
    /\ slot' = slot + 1
    /\ now' = now + dt
    /\ last' = Called("tick", 0, dt)
    /\ UNCHANGED <<global_state, token_vault, governance_state, proposals,
                   publishers, feeds, tokens>>

(***************************************************************************)
(* Stake ledger                                                            *)
(***************************************************************************)
add_publisher_run(p, initial_stake) ==
    IF global_state.paused THEN Fail("SystemPaused")
    ELSE IF ~(initial_stake >= MIN_STAKE_AMOUNT) THEN Fail("InsufficientStake")
    ELSE IF tokens.wallet[p] < initial_stake THEN Fail("TransferFailed")
    ELSE Done

add_publisher(p, initial_stake) ==
    /\ ~publishers[p].registered          \* publisher_account is `init`
    /\ IF add_publisher_run(p, initial_stake).err = "Ok"
       THEN /\ tokens' = [vault |-> tokens.vault + initial_stake,
                          wallet |-> [tokens.wallet EXCEPT
                                         ![p] = @ - initial_stake]]
            /\ publishers' = [publishers EXCEPT ![p] =
                  [registered |-> TRUE,
                   staked_amount |-> initial_stake,
                   reputation |-> 100,
                   registered_at |-> now,
                   slash_count |-> 0,
                   last_slash_slot |-> 0,
                   unbonding_amount |-> 0,
                   unbonding_start |-> 0]]
            /\ token_vault' = [token_vault EXCEPT
                                 !.total_staked = @ + initial_stake]
            /\ global_state' = [global_state EXCEPT
                                  !.total_publishers = @ + 1]
            /\ last' = Called("add_publisher", p, initial_stake)
       ELSE UNCHANGED <<tokens, publishers, token_vault, global_state, last>>
    /\ UNCHANGED <<now, slot, governance_state, proposals, feeds>>

stake_tokens_run(p, amount) ==
    IF global_state.paused THEN Fail("SystemPaused")
    ELSE IF ~(amount > 0) THEN Fail("InsufficientStake")
    ELSE IF tokens.wallet[p] < amount THEN Fail("TransferFailed")
    ELSE Done

\* stake_tokens without `token_vault.total_staked += amount`
stake_tokens_forgets_total(p, amount) ==
    /\ publishers[p].registered
    /\ IF stake_tokens_run(p, amount).err = "Ok"
       THEN /\ tokens' = [vault |-> tokens.vault + amount,
                          wallet |-> [tokens.wallet EXCEPT ![p] = @ - amount]]
            /\ publishers' = [publishers EXCEPT
                                ![p].staked_amount = @ + amount]
            /\ last' = Called("stake_tokens", p, amount)
       ELSE UNCHANGED <<tokens, publishers, last>>
    /\ UNCHANGED <<now, slot, global_state, token_vault, governance_state,
                   proposals, feeds>>

stake_tokens(p, amount) ==
    /\ publishers[p].registered
    /\ IF stake_tokens_run(p, amount).err = "Ok"
       THEN /\ tokens' = [vault |-> tokens.vault + amount,
                          wallet |-> [tokens.wallet EXCEPT ![p] = @ - amount]]
            /\ publishers' = [publishers EXCEPT
                                ![p].staked_amount = @ + amount]
            /\ token_vault' = [token_vault EXCEPT !.total_staked = @ + amount]
            /\ last' = Called("stake_tokens", p, amount)
       ELSE UNCHANGED <<tokens, publishers, token_vault, last>>
    /\ UNCHANGED <<now, slot, global_state, governance_state, proposals, feeds>>

\* unstake_tokens without `require!(remaining >= MIN_STAKE_AMOUNT, ..)`
unstake_tokens_run_no_floor(p, amount) ==
    LET remaining == publishers[p].staked_amount - amount
    IN  IF global_state.paused THEN Fail("SystemPaused")
        ELSE IF remaining < 0 THEN Fail("InsufficientStake")
        ELSE Done

\* unstake_tokens without the pause requirement
unstake_tokens_run_while_paused(p, amount) ==
    LET remaining == publishers[p].staked_amount - amount
    IN  IF remaining < 0 THEN Fail("InsufficientStake")
        ELSE IF ~(remaining >= MIN_STAKE_AMOUNT) THEN Fail("InsufficientStake")
        ELSE Done

unstake_tokens_run(p, amount) ==
    LET remaining == publishers[p].staked_amount - amount
    IN  IF global_state.paused THEN Fail("SystemPaused")
        ELSE IF remaining < 0 THEN Fail("InsufficientStake")  \* checked_sub
        ELSE IF ~(remaining >= MIN_STAKE_AMOUNT) THEN Fail("InsufficientStake")
        ELSE Done

\* unstake_tokens that also takes the amount off total_staked, which
\* withdraw_unbonded takes off again
unstake_tokens_lowers_total(p, amount) ==
    /\ publishers[p].registered
    /\ IF unstake_tokens_run(p, amount).err = "Ok"
       THEN /\ publishers' = [publishers EXCEPT ![p] =
                  [@ EXCEPT !.unbonding_amount = amount,
                            !.unbonding_start = now,
                            !.staked_amount = @ - amount]]
            /\ token_vault' = [token_vault EXCEPT !.total_staked = @ - amount]
            /\ last' = Called("unstake_tokens", p, amount)
       ELSE UNCHANGED <<publishers, token_vault, last>>
    /\ UNCHANGED <<now, slot, global_state, governance_state, proposals,
                   feeds, tokens>>

\* unstake_tokens that adds the amount to a request already pending and
\* keeps that request's clock
unstake_tokens_accumulates(p, amount) ==
    /\ publishers[p].registered
    /\ IF unstake_tokens_run(p, amount).err = "Ok"
       THEN /\ publishers' = [publishers EXCEPT ![p] =
                  [@ EXCEPT !.unbonding_amount = @ + amount,
                            !.unbonding_start =
                                IF publishers[p].unbonding_amount > 0
                                THEN @ ELSE now,
                            !.staked_amount = @ - amount]]
            /\ last' = Called("unstake_tokens", p, amount)
       ELSE UNCHANGED <<publishers, last>>
    /\ UNCHANGED <<now, slot, global_state, token_vault, governance_state,
                   proposals, feeds, tokens>>

unstake_tokens(p, amount) ==
    /\ publishers[p].registered
    /\ IF unstake_tokens_run(p, amount).err = "Ok"
       THEN /\ publishers' = [publishers EXCEPT ![p] =
                  [@ EXCEPT !.unbonding_amount = amount,
                            !.unbonding_start = now,
                            !.staked_amount = @ - amount]]
            /\ last' = Called("unstake_tokens", p, amount)
       ELSE UNCHANGED <<publishers, last>>
    /\ UNCHANGED <<now, slot, global_state, token_vault, governance_state,
                   proposals, feeds, tokens>>

\* withdraw_unbonded with `>` for `>=` in the unbonding-period requirement
withdraw_unbonded_run_strict(p) ==
    LET amount == publishers[p].unbonding_amount
    IN  IF ~(now - publishers[p].unbonding_start > UNBONDING_PERIOD)
        THEN Fail("UnbondingPeriodActive")
        ELSE IF ~(amount > 0) THEN Fail("InsufficientStake")
        ELSE IF tokens.vault < amount THEN Fail("TransferFailed")
        ELSE IF token_vault.total_staked < amount
        THEN FailLate("Overflow", TRUE, TRUE)
        ELSE Done

\* the transfer is issued, and unbonding_amount and unbonding_start are
\* zeroed, before total_staked is checked_sub'ed
withdraw_unbonded_run(p) ==
    LET amount == publishers[p].unbonding_amount
    IN  IF ~(now - publishers[p].unbonding_start >= UNBONDING_PERIOD)
        THEN Fail("UnbondingPeriodActive")
        ELSE IF ~(amount > 0) THEN Fail("InsufficientStake")
        ELSE IF tokens.vault < amount THEN Fail("TransferFailed")
        ELSE IF token_vault.total_staked < amount
        THEN FailLate("Overflow", TRUE, TRUE)
        ELSE Done

withdraw_unbonded(p) ==
    /\ publishers[p].registered
    /\ IF withdraw_unbonded_run(p).err = "Ok"
       THEN LET amount == publishers[p].unbonding_amount
            IN  /\ tokens' = [vault |-> tokens.vault - amount,
                              wallet |-> [tokens.wallet EXCEPT
                                             ![p] = @ + amount]]
                /\ publishers' = [publishers EXCEPT ![p] =
                      [@ EXCEPT !.unbonding_amount = 0,
                                !.unbonding_start = 0]]
                /\ token_vault' = [token_vault EXCEPT
                                     !.total_staked = @ - amount]
                /\ last' = Called("withdraw_unbonded", p,
                                  now - publishers[p].unbonding_start)
       ELSE UNCHANGED <<tokens, publishers, token_vault, last>>
    /\ UNCHANGED <<now, slot, global_state, governance_state, proposals, feeds>>

(***************************************************************************)
(* Governance                                                              *)
(***************************************************************************)
\* ProposalType; an Option<u64> field is the empty set (None) or {v} (Some(v))
UpdateRewardRate(new_rate) ==
    [tag |-> "UpdateRewardRate", new_rate |-> new_rate]

UpdateMinPublishers(feed, new_min) ==
    [tag |-> "UpdateMinPublishers", feed |-> feed, new_min |-> new_min]

SlashPublisher(publisher, percentage) ==
    [tag |-> "SlashPublisher", publisher |-> publisher,
     percentage |-> percentage]

EmergencyPause == [tag |-> "EmergencyPause"]

EmergencyUnpause == [tag |-> "EmergencyUnpause"]

UpdateGovernanceParams(threshold, period, quorum, timelock) ==
    [tag |-> "UpdateGovernanceParams", proposal_threshold |-> threshold,
     voting_period |-> period, quorum_percentage |-> quorum,
     timelock_duration |-> timelock]

\* `if let Some(v) = opt { field = v }`
Overwrite(old, opt) == IF opt = {} THEN old ELSE CHOOSE v \in opt : TRUE

ProposalIds == 1..Len(proposals)

TotalVotes(pr) == pr.yes_votes + pr.no_votes + pr.abstain_votes

\* (total_supply as u128 * quorum_percentage as u128) / 100
Quorum(gov) == (gov.total_supply * gov.quorum_percentage) \div 100

create_proposal_run(proposer_balance) ==
    IF global_state.paused THEN Fail("SystemPaused")
    ELSE IF ~(proposer_balance >= governance_state.proposal_threshold)
    THEN Fail("Unauthorized")
    ELSE Done

create_proposal(proposer_balance, proposal_type) ==
    /\ Len(proposals) < MaxProposals
    /\ IF create_proposal_run(proposer_balance).err = "Ok"
       THEN /\ proposals' = Append(proposals,
                  [proposal_type |-> proposal_type,
                   yes_votes |-> 0, no_votes |-> 0, abstain_votes |-> 0,
                   start_slot |-> slot,
                   end_slot |-> slot + governance_state.voting_period,
                   executed |-> FALSE,
                   execution_time |-> 0,
                   proposal_id |-> governance_state.proposal_count])
            /\ governance_state' = [governance_state EXCEPT
                                      !.proposal_count = @ + 1]
            /\ last' = Called("create_proposal", Len(proposals) + 1, 0)
       ELSE UNCHANGED <<proposals, governance_state, last>>
    /\ UNCHANGED <<now, slot, global_state, token_vault, publishers, feeds,
                   tokens>>

\* vote_proposal without the voting-window check
vote_proposal_run_any_time(i) == Done

vote_proposal_run(i) ==
    IF ~(slot <= proposals[i].end_slot) THEN Fail("VotingPeriodEnded")
    ELSE Done

vote_proposal(i, vote, vote_weight) ==
    /\ i \in ProposalIds
    /\ TotalVotes(proposals[i]) + vote_weight <= MaxVotes * vote_weight
    /\ IF vote_proposal_run(i).err = "Ok"
       THEN /\ proposals' = [proposals EXCEPT ![i] =
                  CASE vote = "Yes" -> [@ EXCEPT !.yes_votes = @ + vote_weight]
                    [] vote = "No" -> [@ EXCEPT !.no_votes = @ + vote_weight]
                    [] vote = "Abstain" ->
                           [@ EXCEPT !.abstain_votes = @ + vote_weight]]
            /\ last' = Called("vote_proposal", i, vote_weight)
       ELSE UNCHANGED <<proposals, last>>
    /\ UNCHANGED <<now, slot, global_state, token_vault, governance_state,
                   publishers, feeds, tokens>>

\* execute_proposal without the timelock comparison of line 702
execute_proposal_run_no_timelock(i) ==
    LET pr == proposals[i]
    IN  IF ~(slot > pr.end_slot) THEN Fail("VotingPeriodActive")
        ELSE IF pr.executed THEN Fail("ProposalNotApproved")
        ELSE IF ~(TotalVotes(pr) >= Quorum(governance_state))
        THEN Fail("QuorumNotReached")
        ELSE IF ~(pr.yes_votes > pr.no_votes) THEN Fail("ProposalNotApproved")
        ELSE Done

\* execute_proposal without the `!proposal.executed` requirement
execute_proposal_run_again(i) ==
    LET pr == proposals[i]
    IN  IF ~(slot > pr.end_slot) THEN Fail("VotingPeriodActive")
        ELSE IF ~(TotalVotes(pr) >= Quorum(governance_state))
        THEN Fail("QuorumNotReached")
        ELSE IF ~(pr.yes_votes > pr.no_votes) THEN Fail("ProposalNotApproved")
        ELSE IF pr.execution_time = 0 THEN Done
        ELSE IF ~(now >= pr.execution_time) THEN Fail("TimelockNotExpired")
        ELSE Done

\* execute_proposal that lets a tie pass
execute_proposal_run_tie_passes(i) ==
    LET pr == proposals[i]
    IN  IF ~(slot > pr.end_slot) THEN Fail("VotingPeriodActive")
        ELSE IF pr.executed THEN Fail("ProposalNotApproved")
        ELSE IF ~(TotalVotes(pr) >= Quorum(governance_state))
        THEN Fail("QuorumNotReached")
        ELSE IF ~(pr.yes_votes >= pr.no_votes) THEN Fail("ProposalNotApproved")
        ELSE IF pr.execution_time = 0 THEN Done
        ELSE IF ~(now >= pr.execution_time) THEN Fail("TimelockNotExpired")
        ELSE Done

\* execute_proposal that executes only at the very second the timelock ends
execute_proposal_run_exact_time(i) ==
    LET pr == proposals[i]
    IN  IF ~(slot > pr.end_slot) THEN Fail("VotingPeriodActive")
        ELSE IF pr.executed THEN Fail("ProposalNotApproved")
        ELSE IF ~(TotalVotes(pr) >= Quorum(governance_state))
        THEN Fail("QuorumNotReached")
        ELSE IF ~(pr.yes_votes > pr.no_votes) THEN Fail("ProposalNotApproved")
        ELSE IF pr.execution_time = 0 THEN Done
        ELSE IF ~(now = pr.execution_time) THEN Fail("TimelockNotExpired")
        ELSE Done

execute_proposal_run(i) ==
    LET pr == proposals[i]
    IN  IF ~(slot > pr.end_slot) THEN Fail("VotingPeriodActive")
        ELSE IF pr.executed THEN Fail("ProposalNotApproved")
        ELSE IF ~(TotalVotes(pr) >= Quorum(governance_state))
        THEN Fail("QuorumNotReached")
        ELSE IF ~(pr.yes_votes > pr.no_votes) THEN Fail("ProposalNotApproved")
        ELSE IF pr.execution_time = 0 THEN Done
        ELSE IF ~(now >= pr.execution_time) THEN Fail("TimelockNotExpired")
        ELSE Done

\* info: 1 for the call that arms the timelock, 0 for the one that executes
execute_proposal(i) ==
    /\ i \in ProposalIds
    /\ IF execute_proposal_run(i).err = "Ok"
       THEN LET arming == proposals[i].execution_time = 0
            IN  /\ proposals' = [proposals EXCEPT ![i] =
                      IF arming
                      THEN [@ EXCEPT !.execution_time =
                               now + governance_state.timelock_duration]
                      ELSE [@ EXCEPT !.executed = TRUE]]
                /\ last' = Called("execute_proposal", i,
                                  IF arming THEN 1 ELSE 0)
       ELSE UNCHANGED <<proposals, last>>
    /\ UNCHANGED <<now, slot, global_state, token_vault, governance_state,
                   publishers, feeds, tokens>>

\* a slash that takes the percentage for tenths of a percent
SlashAmount_per_mille(staked_amount, percentage) ==
    (staked_amount * percentage) \div 1000

\* (staked_amount as u128 * percentage as u128) / 100
SlashAmount(staked_amount, percentage) == (staked_amount * percentage) \div 100

\* whether the call takes the SlashPublisher arm with a publisher account
Slashing(i, publisher_account) ==
    /\ proposals[i].executed
    /\ proposals[i].proposal_type.tag = "SlashPublisher"
    /\ publisher_account # NoAccount

\* the dispatch without the requirement that the proposal was executed
execute_governance_action_run_unapproved(i, publisher_account) ==
    LET pub == publishers[publisher_account]
        slash_amount ==
            SlashAmount(pub.staked_amount,
                        proposals[i].proposal_type.percentage)
    IN  IF ~Slashing(i, publisher_account) THEN Done
        ELSE IF slash_amount > pub.staked_amount THEN Fail("Overflow")
        ELSE IF slash_amount > token_vault.total_staked
        THEN FailLate("Overflow", TRUE, FALSE)
        ELSE Done

\* staked_amount is decremented, and slash_count and last_slash_slot are
\* written, before total_staked is checked_sub'ed
execute_governance_action_run(i, publisher_account) ==
    LET pub == publishers[publisher_account]
        slash_amount ==
            SlashAmount(pub.staked_amount,
                        proposals[i].proposal_type.percentage)
    IN  IF ~proposals[i].executed THEN Fail("ProposalNotApproved")
        ELSE IF ~Slashing(i, publisher_account) THEN Done
        ELSE IF slash_amount > pub.staked_amount THEN Fail("Overflow")
        ELSE IF slash_amount > token_vault.total_staked
        THEN FailLate("Overflow", TRUE, FALSE)
        ELSE Done

\* price_account and publisher_account are the optional accounts the caller
\* passes (NoAccount for None); the feed and the publisher named in the
\* proposal are not compared with them
execute_governance_action(i, price_account, publisher_account) ==
    /\ i \in ProposalIds
    /\ price_account # NoAccount => feeds[price_account].created
    /\ publisher_account # NoAccount =>
           /\ publishers[publisher_account].registered
           /\ publishers[publisher_account].slash_count < MaxSlashes
    /\ IF execute_governance_action_run(i, publisher_account).err = "Ok"
       THEN LET pt == proposals[i].proposal_type
                slashing == Slashing(i, publisher_account)
                pub == publishers[publisher_account]
                slash_amount == SlashAmount(pub.staked_amount, pt.percentage)
            IN
            /\ token_vault' =
                 IF pt.tag = "UpdateRewardRate"
                 THEN [token_vault EXCEPT !.reward_rate = pt.new_rate]
                 ELSE IF slashing
                 THEN [token_vault EXCEPT !.total_staked = @ - slash_amount]
                 ELSE token_vault
            /\ feeds' =
                 IF pt.tag = "UpdateMinPublishers" /\ price_account # NoAccount
                 THEN [feeds EXCEPT ![price_account].min_publishers =
                                       pt.new_min]
                 ELSE feeds
            /\ global_state' =
                 IF pt.tag = "EmergencyPause"
                 THEN [global_state EXCEPT !.paused = TRUE]
                 ELSE IF pt.tag = "EmergencyUnpause"
                 THEN [global_state EXCEPT !.paused = FALSE]
                 ELSE global_state
            /\ governance_state' =
                 IF pt.tag = "UpdateGovernanceParams"
                 THEN [governance_state EXCEPT
                         !.proposal_threshold =
                             Overwrite(@, pt.proposal_threshold),
                         !.voting_period = Overwrite(@, pt.voting_period),
                         !.quorum_percentage =
                             Overwrite(@, pt.quorum_percentage),
                         !.timelock_duration =
                             Overwrite(@, pt.timelock_duration)]
                 ELSE governance_state
            /\ publishers' =
                 IF slashing
                 THEN [publishers EXCEPT ![publisher_account] =
                         [@ EXCEPT !.staked_amount = @ - slash_amount,
                                   !.slash_count = @ + 1,
                                   !.last_slash_slot = slot]]
                 ELSE publishers
            /\ last' = Called("execute_governance_action", i,
                              IF slashing THEN publisher_account
                              ELSE price_account)
       ELSE UNCHANGED <<token_vault, feeds, global_state, governance_state,
                        publishers, last>>
    /\ UNCHANGED <<now, slot, proposals, tokens>>

\* emergency_pause with no requirement on the signer
emergency_pause_run_anyone(caller) == Done

\* the accounts constraint authority.key() == global_state.authority rejects
\* any other signer before the handler's own check runs
emergency_pause_run(caller) ==
    IF caller # global_state.authority THEN Fail("ConstraintRaw") ELSE Done

emergency_pause(caller) ==
    /\ IF emergency_pause_run(caller).err = "Ok"
       THEN /\ global_state' = [global_state EXCEPT !.paused = TRUE]
            /\ last' = Called("emergency_pause", 0, 0)
       ELSE UNCHANGED <<global_state, last>>
    /\ UNCHANGED <<now, slot, token_vault, governance_state, proposals,
                   publishers, feeds, tokens>>

emergency_unpause_run(caller) ==
    IF caller # global_state.authority THEN Fail("ConstraintRaw") ELSE Done

emergency_unpause(caller) ==
    /\ IF emergency_unpause_run(caller).err = "Ok"
       THEN /\ global_state' = [global_state EXCEPT !.paused = FALSE]
            /\ last' = Called("emergency_unpause", 0, 0)
       ELSE UNCHANGED <<global_state, last>>
    /\ UNCHANGED <<now, slot, token_vault, governance_state, proposals,
                   publishers, feeds, tokens>>

(***************************************************************************)
(* Price aggregator                                                        *)
(***************************************************************************)
\* PublisherPrice::default()
NoSubmission ==
    [publisher |-> NoKey, price |-> 0, confidence |-> 0, timestamp |-> 0,
     slot |-> 0, stake |-> 0, active |-> FALSE]

RECURSIVE SortByPrice(_)
\* a stable sort of submissions by price, as sort_by_key(|p| p.price)
SortByPrice(s) ==
    IF s = <<>> THEN <<>>
    ELSE LET x == s[Len(s)]
             t == SortByPrice(SubSeq(s, 1, Len(s) - 1))
         IN  SelectSeq(t, LAMBDA e : e.price <= x.price) \o <<x>>
             \o SelectSeq(t, LAMBDA e : e.price > x.price)

RECURSIVE SortNumbers(_)
\* a sequence of numbers in ascending order, as sort_unstable
SortNumbers(s) ==
    IF s = <<>> THEN <<>>
    ELSE LET x == s[Len(s)]
             t == SortNumbers(SubSeq(s, 1, Len(s) - 1))
         IN  SelectSeq(t, LAMBDA e : e <= x) \o <<x>>
             \o SelectSeq(t, LAMBDA e : e > x)

\* prices.iter().map(|p| p.stake as u128)
Stakes(prices) == [i \in 1..Len(prices) |-> prices[i].stake]

\* the active submissions of a feed, whatever their age
FreshPrices_any_age(feed, t) ==
    SelectSeq(feed.publishers, LAMBDA e : e.active)

\* the active, non-stale submissions of a feed at time t, in slot order
FreshPrices(feed, t) ==
    SelectSeq(feed.publishers,
              LAMBDA e : e.active /\ t - e.timestamp < STALENESS_THRESHOLD)

\* filter_outliers_optimized that keeps only the entries strictly inside the
\* threshold
filter_outliers_optimized_strict(prices) ==
    IF Len(prices) < 3 THEN prices
    ELSE LET median == prices[(Len(prices) \div 2) + 1].price
             deviations ==
                 SortNumbers([i \in 1..Len(prices) |->
                                 Abs(prices[i].price - median)])
             mad == deviations[(Len(deviations) \div 2) + 1]
             threshold == mad * OUTLIER_MAD_MULTIPLIER
         IN  SelectSeq(prices,
                       LAMBDA e : Abs(e.price - median) < threshold)

\* prices is sorted by price
filter_outliers_optimized(prices) ==
    IF Len(prices) < 3 THEN prices
    ELSE LET median == prices[(Len(prices) \div 2) + 1].price
             deviations ==
                 SortNumbers([i \in 1..Len(prices) |->
                                 Abs(prices[i].price - median)])
             mad == deviations[(Len(deviations) \div 2) + 1]
             threshold == mad * OUTLIER_MAD_MULTIPLIER
         IN  SelectSeq(prices,
                       LAMBDA e : Abs(e.price - median) <= threshold)

RECURSIVE FirstReaching(_, _, _, _)
\* the loop of calculate_stake_weighted_median_optimized from entry i on,
\* cumulative being the stake accumulated before it
FirstReaching(prices, i, cumulative, median_stake) ==
    IF i > Len(prices) THEN prices[1].price
    ELSE IF cumulative + prices[i].stake >= median_stake THEN prices[i].price
    ELSE FirstReaching(prices, i + 1, cumulative + prices[i].stake,
                       median_stake)

\* a consensus halfway between the lowest and the highest price
calculate_stake_weighted_median_optimized_midpoint(prices) ==
    (prices[1].price + prices[Len(prices)].price) \div 2

\* the weighted median over the publishers' stake as it is now instead of
\* the stake stored with each submission
calculate_stake_weighted_median_optimized_live(prices) ==
    LET live == [i \in 1..Len(prices) |->
                    [prices[i] EXCEPT
                        !.stake = publishers[prices[i].publisher].staked_amount]]
        total_stake == SumSeq(Stakes(live))
        median_stake == total_stake \div 2
    IN  FirstReaching(live, 1, 0, median_stake)

calculate_stake_weighted_median_optimized(prices) ==
    LET total_stake == SumSeq(Stakes(prices))
        median_stake == total_stake \div 2
    IN  FirstReaching(prices, 1, 0, median_stake)

calculate_confidence_safe(prices, median) ==
    LET total_stake == SumSeq(Stakes(prices))
        Term(e) == (((e.price - median) * (e.price - median)) * e.stake)
                   \div total_stake
        variance == SumSeq([i \in 1..Len(prices) |-> Term(prices[i])])
    IN  IF total_stake = 0 THEN 1 ELSE Max(Isqrt(variance), 1)

RECURSIVE MaxTimestamp(_)
MaxTimestamp(prices) ==
    IF Len(prices) = 1 THEN prices[1].timestamp
    ELSE Max(prices[1].timestamp, MaxTimestamp(Tail(prices)))

\* determine_status_optimized that takes any age of the newest submission
\* for a halt
determine_status_optimized_any_age(prices, min_publishers, current_time) ==
    IF Len(prices) < min_publishers THEN "Unknown"
    ELSE IF prices # <<>> /\ current_time - MaxTimestamp(prices) > 0
    THEN "Halted"
    ELSE "Trading"

determine_status_optimized(prices, min_publishers, current_time) ==
    IF Len(prices) < min_publishers THEN "Unknown"
    ELSE IF prices # <<>> /\ current_time - MaxTimestamp(prices) > HALTED_THRESHOLD
    THEN "Halted"
    ELSE "Trading"

\* update_ema that does not count the observation it blends in
update_ema_no_count(current_ema, new_price, new_confidence) ==
    IF current_ema.num_observations = 0
    THEN [ema_price |-> new_price, ema_confidence |-> new_confidence,
          num_observations |-> 1]
    ELSE LET one_minus_alpha == EMA_SCALE - EMA_ALPHA_SCALED
         IN  [ema_price |->
                  (EMA_ALPHA_SCALED * new_price
                   + one_minus_alpha * current_ema.ema_price) \div EMA_SCALE,
              ema_confidence |->
                  (EMA_ALPHA_SCALED * new_confidence
                   + one_minus_alpha * current_ema.ema_confidence)
                  \div EMA_SCALE,
              num_observations |-> current_ema.num_observations]

\* update_ema with the weights of the new value and of the old EMA exchanged
update_ema_swapped(current_ema, new_price, new_confidence) ==
    IF current_ema.num_observations = 0
    THEN [ema_price |-> new_price, ema_confidence |-> new_confidence,
          num_observations |-> 1]
    ELSE LET one_minus_alpha == EMA_SCALE - EMA_ALPHA_SCALED
         IN  [ema_price |->
                  (one_minus_alpha * new_price
                   + EMA_ALPHA_SCALED * current_ema.ema_price) \div EMA_SCALE,
              ema_confidence |->
                  (one_minus_alpha * new_confidence
                   + EMA_ALPHA_SCALED * current_ema.ema_confidence)
                  \div EMA_SCALE,
              num_observations |-> current_ema.num_observations + 1]

update_ema(current_ema, new_price, new_confidence) ==
    IF current_ema.num_observations = 0
    THEN [ema_price |-> new_price, ema_confidence |-> new_confidence,
          num_observations |-> 1]
    ELSE LET one_minus_alpha == EMA_SCALE - EMA_ALPHA_SCALED
         IN  [ema_price |->
                  (EMA_ALPHA_SCALED * new_price
                   + one_minus_alpha * current_ema.ema_price) \div EMA_SCALE,
              ema_confidence |->
                  (EMA_ALPHA_SCALED * new_confidence
                   + one_minus_alpha * current_ema.ema_confidence)
                  \div EMA_SCALE,
              num_observations |-> current_ema.num_observations + 1]

\* aggregate_prices_internal without the early return on
\* filtered_prices.len() < min_publishers
aggregate_prices_internal_no_min_check(price_account, t, s) ==
    LET valid_prices == SortByPrice(FreshPrices(price_account, t))
        filtered_prices == filter_outliers_optimized(valid_prices)
        median_price ==
            calculate_stake_weighted_median_optimized(filtered_prices)
        confidence == calculate_confidence_safe(filtered_prices, median_price)
        status == determine_status_optimized(
                      valid_prices, price_account.min_publishers, t)
    IN  IF valid_prices = <<>>
        THEN [price_account EXCEPT !.aggregate.status = "Unknown"]
        ELSE [price_account EXCEPT
                !.aggregate = [price |-> median_price,
                               confidence |-> confidence,
                               exponent |-> price_account.exponent,
                               timestamp |-> t,
                               slot |-> s,
                               status |-> status],
                !.ema = update_ema(price_account.ema, median_price,
                                   confidence)]

\* aggregate_prices_internal whose early returns also stamp the Aggregate
\* with the clock
aggregate_prices_internal_stamps(price_account, t, s) ==
    LET valid_prices == SortByPrice(FreshPrices(price_account, t))
        filtered_prices == filter_outliers_optimized(valid_prices)
        median_price ==
            calculate_stake_weighted_median_optimized(filtered_prices)
        confidence == calculate_confidence_safe(filtered_prices, median_price)
        status == determine_status_optimized(
                      valid_prices, price_account.min_publishers, t)
    IN  IF valid_prices = <<>>
           \/ Len(filtered_prices) < price_account.min_publishers
        THEN [price_account EXCEPT !.aggregate.status = "Unknown",
                                   !.aggregate.timestamp = t,
                                   !.aggregate.slot = s]
        ELSE [price_account EXCEPT
                !.aggregate = [price |-> median_price,
                               confidence |-> confidence,
                               exponent |-> price_account.exponent,
                               timestamp |-> t,
                               slot |-> s,
                               status |-> status],
                !.ema = update_ema(price_account.ema, median_price,
                                   confidence)]

\* the price account after aggregate_prices_internal at clock (t, s)
aggregate_prices_internal(price_account, t, s) ==
    LET valid_prices == SortByPrice(FreshPrices(price_account, t))
        filtered_prices == filter_outliers_optimized(valid_prices)
        median_price ==
            calculate_stake_weighted_median_optimized(filtered_prices)
        confidence == calculate_confidence_safe(filtered_prices, median_price)
        status == determine_status_optimized(
                      valid_prices, price_account.min_publishers, t)
    IN  IF valid_prices = <<>>
        THEN [price_account EXCEPT !.aggregate.status = "Unknown"]
        ELSE IF Len(filtered_prices) < price_account.min_publishers
        THEN [price_account EXCEPT !.aggregate.status = "Unknown"]
        ELSE [price_account EXCEPT
                !.aggregate = [price |-> median_price,
                               confidence |-> confidence,
                               exponent |-> price_account.exponent,
                               timestamp |-> t,
                               slot |-> s,
                               status |-> status],
                !.ema = update_ema(price_account.ema, median_price,
                                   confidence)]

create_product_run ==
    IF global_state.paused THEN Fail("SystemPaused") ELSE Done

create_product(f, min_publishers, exponent) ==
    /\ ~feeds[f].created        \* product_account and price_account are `init`
    /\ IF create_product_run.err = "Ok"
       THEN /\ feeds' = [feeds EXCEPT ![f] =
                  [NoFeed EXCEPT
                     !.created = TRUE,
                     !.publishers = [i \in 1..MAX_PUBLISHERS |-> NoSubmission],
                     !.min_publishers = min_publishers,
                     !.exponent = exponent]]
            /\ global_state' = [global_state EXCEPT !.total_products = @ + 1]
            /\ last' = Called("create_product", f, min_publishers)
       ELSE UNCHANGED <<feeds, global_state, last>>
    /\ UNCHANGED <<now, slot, token_vault, governance_state, proposals,
                   publishers, tokens>>

\* indices of the submission table, in scan order
SlotsOf(feed) == 1..Len(feed.publishers)

\* update_price that never looks for the publisher's own active slot
TargetSlot_first_free(feed, key) ==
    LET free == {i \in SlotsOf(feed) : ~feed.publishers[i].active}
    IN  IF free # {} THEN CHOOSE i \in free : \A j \in free : i <= j
        ELSE 0 * Len(feed.publishers)

\* the slot update_price writes: the publisher's active slot, else the first
\* inactive one, else none (0)
TargetSlot(feed, key) ==
    LET own == {i \in SlotsOf(feed) :
                  feed.publishers[i].active
                  /\ feed.publishers[i].publisher = key}
        free == {i \in SlotsOf(feed) : ~feed.publishers[i].active}
        First(S) == CHOOSE i \in S : \A j \in S : i <= j
    IN  IF own # {} THEN First(own)
        ELSE IF free # {} THEN First(free)
        ELSE 0 * Len(feed.publishers)

update_price_run(p, f, price) ==
    IF global_state.paused THEN Fail("SystemPaused")
    ELSE IF ~(price > 0) THEN Fail("InvalidPrice")
    ELSE IF ~(now > 0) THEN Fail("InvalidTimestamp")
    ELSE IF TargetSlot(feeds[f], p) = 0 THEN Fail("PublishersArrayFull")
    ELSE Done

\* the price account after the submission is written, before aggregation
Submitted(feed, p, price, confidence) ==
    LET i == TargetSlot(feed, p)
    IN  [feed EXCEPT
           !.publishers[i] =
               [publisher |-> p, price |-> price, confidence |-> confidence,
                timestamp |-> now, slot |-> slot,
                stake |-> publishers[p].staked_amount, active |-> TRUE],
           !.publisher_count = IF feed.publishers[i].active THEN @ ELSE @ + 1,
           !.last_update_slot = slot]

\* `if price_account.publisher_count >= price_account.min_publishers`
Triggers(feed) == feed.publisher_count >= feed.min_publishers

\* info: whether the call ran the aggregation (1) or not (0)
update_price(p, f, price, confidence) ==
    /\ publishers[p].registered
    /\ feeds[f].created
    /\ feeds[f].ema.num_observations < MaxObservations
    /\ IF update_price_run(p, f, price).err = "Ok"
       THEN LET written == Submitted(feeds[f], p, price, confidence)
            IN  /\ feeds' = [feeds EXCEPT ![f] =
                      IF Triggers(written)
                      THEN aggregate_prices_internal(written, now, slot)
                      ELSE written]
                /\ last' = Called("update_price", f,
                                  IF Triggers(written) THEN 1 ELSE 0)
       ELSE UNCHANGED <<feeds, last>>
    /\ UNCHANGED <<now, slot, global_state, token_vault, governance_state,
                   proposals, publishers, tokens>>

aggregate_price(f) ==
    /\ feeds[f].created
    /\ feeds[f].ema.num_observations < MaxObservations
    /\ feeds' = [feeds EXCEPT
                   ![f] = aggregate_prices_internal(feeds[f], now, slot)]
    /\ last' = Called("aggregate_price", f, 0)
    /\ UNCHANGED <<now, slot, global_state, token_vault, governance_state,
                   proposals, publishers, tokens>>

(***************************************************************************)
(* Governance: proposals are created, voted on, armed, executed and applied *)
(***************************************************************************)
VoteTypes == {"Yes", "No", "Abstain"}

\* the proposals put forward: a quorum raised above what MaxVotes votes of
\* VoteWeight amount to, and a quorum lowered to what one vote amounts to
GovProposalTypes ==
    {UpdateGovernanceParams({}, {}, {InitQuorumPercentage + 30}, {}),
     UpdateGovernanceParams({}, {}, {InitQuorumPercentage - 10}, {})}

\* a proposal of this type has been created already
Proposed(t) == \E j \in ProposalIds : proposals[j].proposal_type = t

Next ==
    \/ \E dt \in {1, InitTimelockDuration} : slot < MaxSlot /\ Tick(dt)
    \/ \E b \in {InitProposalThreshold - 1, InitProposalThreshold},
          t \in GovProposalTypes :
          ~Proposed(t) /\ create_proposal(b, t)
    \/ \E i \in 1..MaxProposals, v \in VoteTypes :
          vote_proposal(i, v, VoteWeight)
    \/ \E i \in 1..MaxProposals : execute_proposal(i)
    \/ \E i \in 1..MaxProposals :
          execute_governance_action(i, NoAccount, NoAccount)

Spec == Init /\ [][Next]_vars

\* the quorum and majority requirements of execute_proposal, in this state
Approved(i) ==
    /\ TotalVotes(proposals[i]) >= Quorum(governance_state)
    /\ proposals[i].yes_votes > proposals[i].no_votes

Armed(i) == proposals[i].execution_time # 0 /\ ~proposals[i].executed

C1_Inv ==
    \A i \in ProposalIds :
        /\ proposals[i].executed =>
               /\ proposals[i].execution_time # 0
               /\ now >= proposals[i].execution_time
        /\ Armed(i) =>
               execute_proposal_run(i).err =
                   IF ~Approved(i)
                   THEN IF TotalVotes(proposals[i]) >= Quorum(governance_state)
                        THEN "ProposalNotApproved" ELSE "QuorumNotReached"
                   ELSE IF now < proposals[i].execution_time
                   THEN "TimelockNotExpired"
                   ELSE "Ok"

C1_Step ==
    \A i \in ProposalIds :
        /\ proposals'[i].execution_time # proposals[i].execution_time =>
               /\ proposals[i].execution_time = 0
               /\ execute_proposal_run(i).err = "Ok"
               /\ proposals'[i].execution_time =
                      now + governance_state.timelock_duration
               /\ ~proposals'[i].executed
               /\ last' = Called("execute_proposal", i, 1)
        /\ proposals'[i].executed /\ ~proposals[i].executed =>
               /\ Armed(i)
               /\ now >= proposals[i].execution_time
               /\ last' = Called("execute_proposal", i, 0)

C2_Inv ==
    \A i \in ProposalIds :
        proposals[i].executed =>
            /\ execute_proposal_run(i).err = "ProposalNotApproved"
            /\ vote_proposal_run(i).err = "VotingPeriodEnded"
            /\ execute_governance_action_run(i, NoAccount).err = "Ok"

C2_Step ==
    \A i \in ProposalIds :
        proposals[i].executed => proposals'[i] = proposals[i]

\* C2: once a proposal has executed = true no vote_proposal, execute_proposal
\* or execute_governance_action call changes any of its fields, and every
\* later execute_proposal (and vote_proposal) call on it fails.
C2_ExecutedIsTerminal == []C2_Inv /\ [][C2_Step]_vars

\* C2 witness: an executed proposal's action has just been applied
C2_Witness ==
    \E i \in ProposalIds :
        /\ proposals[i].executed
        /\ last = Called("execute_governance_action", i, NoAccount)

(***************************************************************************)
(* Stake ledger: publishers register, stake, unstake, withdraw and are      *)
(* slashed, in a state where governance has executed two slash proposals    *)
(***************************************************************************)
\* the slot and the time at which a proposal created at GenesisSlot is
\* executed: armed in the first slot after its voting window, one second per
\* slot, and executed InitTimelockDuration seconds later
ExecutedSlot == GenesisSlot + InitVotingPeriod + 2

ExecutedTime == GenesisTime + InitVotingPeriod + 1 + InitTimelockDuration

\* the Proposal account after create_proposal at GenesisSlot, two Yes votes
\* and the two execute_proposal calls
ExecutedProposal(id, proposal_type) ==
    [proposal_type |-> proposal_type,
     yes_votes |-> 2 * VoteWeight, no_votes |-> 0, abstain_votes |-> 0,
     start_slot |-> GenesisSlot,
     end_slot |-> GenesisSlot + InitVotingPeriod,
     executed |-> TRUE,
     execution_time |-> ExecutedTime,
     proposal_id |-> id]

\* the state reached from Init once the proposals types[1], types[2], ...
\* have been created and executed
AfterGovernance(types) ==
    /\ now = ExecutedTime
    /\ slot = ExecutedSlot
    /\ global_state = [authority |-> "authority", paused |-> FALSE,
                       total_products |-> 0, total_publishers |-> 0]
    /\ token_vault = [total_staked |-> 0, total_rewards_distributed |-> 0,
                      reward_rate |-> InitRewardRate,
                      last_distribution_slot |-> GenesisSlot]
    /\ governance_state = [proposal_threshold |-> InitProposalThreshold,
                           voting_period |-> InitVotingPeriod,
                           quorum_percentage |-> InitQuorumPercentage,
                           timelock_duration |-> InitTimelockDuration,
                           proposal_count |-> Len(types),
                           total_supply |-> InitTotalSupply]
    /\ proposals = [i \in 1..Len(types) |-> ExecutedProposal(i - 1, types[i])]
    /\ publishers = [p \in Publishers |-> NoPublisher]
    /\ feeds = [f \in Feeds |-> NoFeed]
    /\ tokens = [vault |-> 0, wallet |-> [p \in Publishers |-> InitialWallet]]
    /\ last = Called("execute_proposal", Len(types), 0)

\* a slash by a tenth, and one by more than the whole stake
LedgerProposalTypes == <<SlashPublisher(1, 10), SlashPublisher(2, 150)>>

InitLedger == AfterGovernance(LedgerProposalTypes)

\* publisher 1 stakes, unstakes and withdraws; publisher 2 only registers;
\* either can be slashed
LedgerPublishers == 1..2

NextLedger ==
    \/ \E dt \in {1, UNBONDING_PERIOD - 1} :
          slot < ExecutedSlot + MaxLedgerTicks /\ Tick(dt)
    \/ \E p \in LedgerPublishers :
          \E a \in {MIN_STAKE_AMOUNT - 1, 2 * MIN_STAKE_AMOUNT + 5 * (p - 1)} :
             add_publisher(p, a)
    \/ \E a \in {0, MIN_STAKE_AMOUNT} : stake_tokens(1, a)
    \/ \E a \in {MIN_STAKE_AMOUNT \div 2, MIN_STAKE_AMOUNT} :
          unstake_tokens(1, a)
    \/ withdraw_unbonded(1)
    \/ \E i \in 1..Len(LedgerProposalTypes), q \in LedgerPublishers :
          execute_governance_action(i, NoAccount, q)

SpecLedger == InitLedger /\ [][NextLedger]_vars

Registered == {p \in Publishers : publishers[p].registered}

StakedOf == [p \in Publishers |-> publishers[p].staked_amount]

BondedOf ==
    [p \in Publishers |->
        publishers[p].staked_amount + publishers[p].unbonding_amount]

C3_Inv ==
    /\ token_vault.total_staked >= SumOver(BondedOf, Registered)
    /\ token_vault.total_staked <= tokens.vault

\* by how much a step raises total_staked, and the sum of staked_amount
C3_Step ==
    LET total == token_vault'.total_staked - token_vault.total_staked
        sum == SumOver([p \in Publishers |->
                           publishers'[p].staked_amount
                           - publishers[p].staked_amount], Publishers)
    IN  CASE last'.op = "unstake_tokens" -> total = 0 /\ sum <= 0
          [] last'.op = "withdraw_unbonded" -> total <= 0 /\ sum = 0
          [] OTHER -> total = sum

\* C3 (as it holds): total_staked is never less than the sum over all
\* publishers of staked_amount + unbonding_amount, and never more than the
\* vault's balance; add_publisher, stake_tokens and a slash change
\* total_staked and the sum of staked_amount by the same amount,
\* unstake_tokens lowers only the sum and withdraw_unbonded only total_staked.
C3_TotalStakedCoversStakes == []C3_Inv /\ [][C3_Step]_vars

\* C3 witness: after a stake, an unstake and a slash, total_staked exceeds
\* the sum of staked_amount by the amount that is unbonding
C3_Witness ==
    /\ publishers[1].slash_count > 0
    /\ publishers[1].unbonding_amount > 0
    /\ publishers[2].registered
    /\ token_vault.total_staked
           = SumOver(StakedOf, Registered) + publishers[1].unbonding_amount

\* C3 as stated: total_staked equals the sum of staked_amount
C3_AsStated == token_vault.total_staked = SumOver(StakedOf, Registered)

\* amounts to unstake: around what leaves exactly MIN_STAKE_AMOUNT staked
UnstakeAmounts(p) ==
    {a \in {0, MIN_STAKE_AMOUNT \div 2, MIN_STAKE_AMOUNT,
            publishers[p].staked_amount - MIN_STAKE_AMOUNT,
            publishers[p].staked_amount - MIN_STAKE_AMOUNT + 1,
            publishers[p].staked_amount} : a >= 0}

C4_Inv ==
    \A p \in Registered :
        /\ publishers[p].slash_count = 0 =>
               publishers[p].staked_amount >= MIN_STAKE_AMOUNT
        /\ \A a \in UnstakeAmounts(p) :
               unstake_tokens_run(p, a).err = "Ok" <=>
                   publishers[p].staked_amount - a >= MIN_STAKE_AMOUNT

C4_Step ==
    \A p \in Publishers :
        (/\ publishers'[p].registered
         /\ publishers'[p].staked_amount < MIN_STAKE_AMOUNT
         /\ publishers[p].registered =>
                publishers[p].staked_amount >= MIN_STAKE_AMOUNT)
        => /\ publishers[p].registered
           /\ last' = Called("execute_governance_action", last'.id, p)

C5_Inv ==
    \A p \in Registered :
        withdraw_unbonded_run(p).err =
            IF publishers[p].unbonding_amount > 0
            THEN IF now - publishers[p].unbonding_start < UNBONDING_PERIOD
                 THEN "UnbondingPeriodActive" ELSE "Ok"
            ELSE IF now - publishers[p].unbonding_start < UNBONDING_PERIOD
                 THEN "UnbondingPeriodActive" ELSE "InsufficientStake"

C5_Step ==
    \A p \in Publishers :
        last'.op = "withdraw_unbonded" /\ last'.id = p =>
            LET amount == publishers[p].unbonding_amount
            IN  /\ amount > 0
                /\ now - publishers[p].unbonding_start >= UNBONDING_PERIOD
                /\ tokens'.wallet[p] = tokens.wallet[p] + amount
                /\ tokens'.vault = tokens.vault - amount
                /\ publishers'[p] = [publishers[p] EXCEPT
                                        !.unbonding_amount = 0,
                                        !.unbonding_start = 0]
                /\ token_vault'.total_staked = token_vault.total_staked - amount

\* C5: with a pending unbonding amount, withdraw_unbonded fails with
\* UnbondingPeriodActive while now - unbonding_start < UNBONDING_PERIOD and
\* succeeds from exactly UNBONDING_PERIOD on; a successful call pays out
\* unbonding_amount, zeroes unbonding_amount and unbonding_start and lowers
\* total_staked by the amount; with no pending amount the call fails.
C5_WithdrawAtBoundary == []C5_Inv /\ [][C5_Step]_vars

\* C5 witness: a withdrawal has just succeeded exactly UNBONDING_PERIOD
\* after the unstake
C5_Witness ==
    /\ last = Called("withdraw_unbonded", 1, UNBONDING_PERIOD)
    /\ publishers[1].unbonding_amount = 0
    /\ withdraw_unbonded_run(1).err = "InsufficientStake"

(***************************************************************************)
(* Price feed: publishers submit prices to one product and anyone           *)
(* re-aggregates, in a state where governance has executed a proposal that  *)
(* raises the product's min_publishers                                      *)
(***************************************************************************)
FeedProposalTypes == <<UpdateMinPublishers(1, 2)>>

InitFeed == AfterGovernance(FeedProposalTypes)

FeedPublishers == 1..2

\* the prices submitted; 0 is rejected
FeedPrices == {0, 100, 200}

NextFeed ==
    \/ \E dt \in {1, STALENESS_THRESHOLD} :
          slot < ExecutedSlot + MaxFeedTicks /\ Tick(dt)
    \/ \E p \in FeedPublishers : add_publisher(p, p * MIN_STAKE_AMOUNT)
    \/ \E m \in {1, 2} : create_product(1, m, -8)
    \/ \E p \in FeedPublishers, price \in FeedPrices :
          update_price(p, 1, price, 1)
    \/ aggregate_price(1)
    \/ execute_governance_action(1, 1, NoAccount)

SpecFeed == InitFeed /\ [][NextFeed]_vars

Created == {f \in Feeds : feeds[f].created}

\* how many submissions of the price account are fresh now
Fresh(price_account) == Len(FreshPrices(price_account, now))

\* the price accounts an aggregation can be run on in this state: the
\* account as it is (aggregate_price) and the account with a submission
\* written to it that triggers the aggregation (update_price)
AggregationInputs(f) ==
    {feeds[f]} \cup
    {Submitted(feeds[f], p, price, 1) :
        p \in {q \in Registered : TargetSlot(feeds[f], q) # 0},
        price \in FeedPrices \ {0}}

Runs(f) ==
    {a \in AggregationInputs(f) : a = feeds[f] \/ Triggers(a)}

\* the run left everything but the status as it was and the status Unknown
OnlyStatusUnknown(before, after) ==
    after = [before EXCEPT !.aggregate.status = "Unknown"]

\* the run replaced the Aggregate record and folded the price into the EMA
Replaced(before, after) ==
    /\ after.aggregate.exponent = before.exponent
    /\ after.aggregate.timestamp = now
    /\ after.aggregate.slot = slot
    /\ after.aggregate.status \in {"Trading", "Halted"}
    /\ after.ema = update_ema(before.ema, after.aggregate.price,
                              after.aggregate.confidence)
    /\ after = [before EXCEPT !.aggregate = after.aggregate,
                              !.ema = after.ema]

\* C6: whenever aggregation runs on a feed with fewer than min_publishers
\* fresh submissions, the status afterwards is Unknown and the Aggregate's
\* price, confidence and timestamp and the EMA are what they were before.
C6_InsufficientKeepsAggregate ==
    \A f \in Created : \A a \in Runs(f) :
        Fresh(a) < a.min_publishers =>
            LET r == aggregate_prices_internal(a, now, slot)
            IN  /\ r.aggregate.status = "Unknown"
                /\ r.aggregate.price = a.aggregate.price
                /\ r.aggregate.confidence = a.aggregate.confidence
                /\ r.aggregate.timestamp = a.aggregate.timestamp
                /\ r.ema = a.ema

\* C6 witness: an update_price has just run the aggregation with one fresh
\* submission on a feed that needs two, leaving the earlier price with
\* status Unknown
C6_Witness ==
    /\ last = Called("update_price", 1, 1)
    /\ 0 < Fresh(feeds[1]) /\ Fresh(feeds[1]) < feeds[1].min_publishers
    /\ feeds[1].aggregate.status = "Unknown"
    /\ feeds[1].aggregate.price > 0
    /\ feeds[1].aggregate.timestamp < now
    /\ feeds[1].ema.num_observations > 0

\* C7 (as it holds): every aggregation run either replaces the whole
\* Aggregate record (and folds the new price into the EMA), or sets the
\* Aggregate's status to Unknown and leaves its price, confidence, exponent,
\* timestamp and slot, and the EMA, as they were.
C7_ReplacedOrOnlyStatus ==
    \A f \in Created : \A a \in Runs(f) :
        LET r == aggregate_prices_internal(a, now, slot)
        IN  \/ Replaced(a, r)
            \/ OnlyStatusUnknown(a, r)

\* C7 witness: a run has just changed a Trading aggregate's status to
\* Unknown and nothing else
C7_Witness ==
    /\ last.op \in {"update_price", "aggregate_price"}
    /\ feeds[1].aggregate.status = "Unknown"
    /\ feeds[1].aggregate.price > 0
    /\ feeds[1].aggregate.timestamp < now
    /\ feeds[1].aggregate.slot < slot

\* C7 as stated: a run replaces the whole Aggregate or leaves every field of
\* it unchanged
C7_AsStated ==
    \A f \in Created : \A a \in Runs(f) :
        LET r == aggregate_prices_internal(a, now, slot)
        IN  \/ Replaced(a, r)
            \/ r.aggregate = a.aggregate

\* C8 (as it holds): a second aggregate_price at the same clock reading
\* leaves the Aggregate record, the submissions and the configuration as
\* the first left them; whenever the first replaced the Aggregate, the
\* second folds the same price into the EMA once more, so num_observations
\* is one higher than after a single call.
C8_RecomputeButEmaAdvances ==
    \A f \in Created :
        LET once == aggregate_prices_internal(feeds[f], now, slot)
            twice == aggregate_prices_internal(once, now, slot)
        IN  /\ twice = [once EXCEPT !.ema = twice.ema]
            /\ twice.ema =
                   IF Replaced(feeds[f], once)
                   THEN [ema_price |->
                             (EMA_ALPHA_SCALED * once.aggregate.price
                              + (EMA_SCALE - EMA_ALPHA_SCALED)
                                * once.ema.ema_price) \div EMA_SCALE,
                         ema_confidence |->
                             (EMA_ALPHA_SCALED * once.aggregate.confidence
                              + (EMA_SCALE - EMA_ALPHA_SCALED)
                                * once.ema.ema_confidence) \div EMA_SCALE,
                         num_observations |-> once.ema.num_observations + 1]
                   ELSE once.ema

\* C8 witness: aggregate_price has just replaced the Aggregate for the
\* second time at the same clock reading, with two observations in the EMA
C8_Witness ==
    /\ last = Called("aggregate_price", 1, 0)
    /\ feeds[1].aggregate.timestamp = now
    /\ feeds[1].aggregate.slot = slot
    /\ feeds[1].aggregate.status = "Trading"
    /\ feeds[1].ema.num_observations = 2

\* C8 as stated: a second aggregate_price at the same clock reading leaves
\* the feed, EMA included, as the first left it
C8_AsStated ==
    \A f \in Created :
        LET once == aggregate_prices_internal(feeds[f], now, slot)
        IN  aggregate_prices_internal(once, now, slot) = once

\* C9 as stated: right after a successful update_price on a feed that then
\* has fewer than min_publishers fresh submissions, the submission is in the
\* publisher's slot and the aggregate status is Unknown
C9_AsStated ==
    \A f \in Created :
        last.op = "update_price" /\ last.id = f
        /\ Fresh(feeds[f]) < feeds[f].min_publishers
        => /\ \E i \in SlotsOf(feeds[f]) :
                  /\ feeds[f].publishers[i].active
                  /\ feeds[f].publishers[i].timestamp = now
                  /\ feeds[f].publishers[i].slot = slot
           /\ feeds[f].aggregate.status = "Unknown"

(***************************************************************************)
(* Failing calls: the operations that move tokens, slash, fill a feed's     *)
(* submission table or pause the program, with arguments they reject;       *)
(* publishers register, and first submit, in the order of their keys        *)
(***************************************************************************)
\* a slash by a tenth, and one by more than the whole stake
OpsProposalTypes == <<SlashPublisher(1, 10), SlashPublisher(1, 150)>>

InitOps == AfterGovernance(OpsProposalTypes)

Callers == {"authority", "other"}

NextOps ==
    \/ slot < ExecutedSlot + MaxOpsTicks /\ Tick(UNBONDING_PERIOD)
    \/ \E p \in Publishers :
          p = global_state.total_publishers + 1
          /\ add_publisher(p, 2 * MIN_STAKE_AMOUNT)
    \/ unstake_tokens(1, MIN_STAKE_AMOUNT)
    \/ withdraw_unbonded(1)
    \/ \E i \in 1..Len(OpsProposalTypes) :
          execute_governance_action(i, NoAccount, 1)
    \/ create_product(1, MAX_PUBLISHERS, -8)
    \/ \E p \in {1, feeds[1].publisher_count + 1} \cap Publishers :
          update_price(p, 1, 100, 1)
    \/ \E c \in Callers : emergency_pause(c)
    \/ \E c \in Callers : emergency_unpause(c)

SpecOps == InitOps /\ [][NextOps]_vars

\* the outcome of every call that can be made in this state, with
\* arguments on both sides of each requirement
Outcomes ==
    {create_product_run}
    \cup {add_publisher_run(p, a) :
             p \in Publishers \ Registered,
             a \in {MIN_STAKE_AMOUNT - 1, 2 * MIN_STAKE_AMOUNT,
                    InitialWallet + 1}}
    \cup {stake_tokens_run(p, a) :
             p \in Registered, a \in {0, MIN_STAKE_AMOUNT, InitialWallet + 1}}
    \cup UNION {{unstake_tokens_run(p, a) : a \in UnstakeAmounts(p)} :
                   p \in Registered}
    \cup {withdraw_unbonded_run(p) : p \in Registered}
    \cup {update_price_run(p, f, price) :
             p \in Registered, f \in Created, price \in FeedPrices}
    \cup {create_proposal_run(b) :
             b \in {InitProposalThreshold - 1, InitProposalThreshold}}
    \cup {vote_proposal_run(i) : i \in ProposalIds}
    \cup {execute_proposal_run(i) : i \in ProposalIds}
    \cup {execute_governance_action_run(i, q) :
             i \in ProposalIds, q \in Registered \cup {NoAccount}}
    \cup {emergency_pause_run(c) : c \in Callers}
    \cup {emergency_unpause_run(c) : c \in Callers}

ActiveSlots(price_account) ==
    {i \in SlotsOf(price_account) : price_account.publishers[i].active}

\* C11: a feed has at most one active submission slot per publisher, and
\* publisher_count is the number of active slots and never exceeds the
\* capacity MAX_PUBLISHERS of the table.
C11_OneSlotPerPublisher ==
    \A f \in Created :
        /\ Len(feeds[f].publishers) = MAX_PUBLISHERS
        /\ \A i, j \in ActiveSlots(feeds[f]) :
               feeds[f].publishers[i].publisher
                   = feeds[f].publishers[j].publisher => i = j
        /\ feeds[f].publisher_count = Cardinality(ActiveSlots(feeds[f]))
        /\ feeds[f].publisher_count <= MAX_PUBLISHERS

\* C11 witness: the table is full, a publisher that holds a slot has just
\* submitted again and a registered publisher without a slot is turned away
C11_Witness ==
    /\ last = Called("update_price", 1, 1)
    /\ feeds[1].publisher_count = MAX_PUBLISHERS
    /\ ActiveSlots(feeds[1]) = SlotsOf(feeds[1])
    /\ slot > ExecutedSlot
    /\ \E i \in SlotsOf(feeds[1]) :
           /\ feeds[1].publishers[i].slot = slot
           /\ \E j \in SlotsOf(feeds[1]) : feeds[1].publishers[j].slot < slot
    /\ \E p \in Registered : update_price_run(p, 1, 100).err = "PublishersArrayFull"

(***************************************************************************)
(* Aggregation: three registered publishers have submitted prices to one   *)
(* product whose min_publishers was above three while they did, so that no *)
(* submission triggered the aggregation; governance has executed a slash   *)
(* of the whole stake, applied before submitting to the publishers whose   *)
(* stake snapshot is 0, and a proposal that sets the product's             *)
(* min_publishers, applied last.  Anyone then calls aggregate_price as     *)
(* time passes.                                                            *)
(***************************************************************************)
AggregatePublishers == 1..3

\* the prices submitted
AggregatePrices == {99, 100, 103, 200}

\* the stake of publishers 1, 2, 3 when they submitted
AggregateStakes ==
    {<<MIN_STAKE_AMOUNT, MIN_STAKE_AMOUNT, MIN_STAKE_AMOUNT>>,
     <<2 * MIN_STAKE_AMOUNT, MIN_STAKE_AMOUNT + 1, MIN_STAKE_AMOUNT>>,
     <<MIN_STAKE_AMOUNT, MIN_STAKE_AMOUNT + 1, 2 * MIN_STAKE_AMOUNT>>,
     <<0, MIN_STAKE_AMOUNT, MIN_STAKE_AMOUNT + 1>>,
     <<0, 0, 0>>}

\* how long ago each publisher last submitted
AggregateAges == {0, STALENESS_THRESHOLD}

AggregateProposalTypes(new_min) ==
    <<SlashPublisher(1, 100), UpdateMinPublishers(1, new_min)>>

\* what a publisher with this stake registered with
RegisteredWith(stake) == IF stake = 0 THEN MIN_STAKE_AMOUNT ELSE stake

InitAggregate ==
    \E stakes \in AggregateStakes,
       prices \in [AggregatePublishers -> AggregatePrices],
       ages \in [AggregatePublishers -> AggregateAges],
       new_min \in {1, 3} :
       LET types == AggregateProposalTypes(new_min)
           registered == [p \in AggregatePublishers |->
                             RegisteredWith(stakes[p])]
           written == [p \in AggregatePublishers |->
                          IF ages[p] = 0 THEN ExecutedSlot + 1
                          ELSE ExecutedSlot]
       IN
       /\ now = ExecutedTime + STALENESS_THRESHOLD
       /\ slot = ExecutedSlot + 1
       /\ global_state = [authority |-> "authority", paused |-> FALSE,
                          total_products |-> 1,
                          total_publishers |-> Cardinality(AggregatePublishers)]
       /\ token_vault = [total_staked |-> SumSeq(stakes),
                         total_rewards_distributed |-> 0,
                         reward_rate |-> InitRewardRate,
                         last_distribution_slot |-> GenesisSlot]
       /\ governance_state = [proposal_threshold |-> InitProposalThreshold,
                              voting_period |-> InitVotingPeriod,
                              quorum_percentage |-> InitQuorumPercentage,
                              timelock_duration |-> InitTimelockDuration,
                              proposal_count |-> Len(types),
                              total_supply |-> InitTotalSupply]
       /\ proposals = [i \in 1..Len(types) |->
                          ExecutedProposal(i - 1, types[i])]
       /\ publishers = [p \in Publishers |->
            IF p \in AggregatePublishers
            THEN [registered |-> TRUE,
                  staked_amount |-> stakes[p],
                  reputation |-> 100,
                  registered_at |-> ExecutedTime,
                  slash_count |-> IF stakes[p] = 0 THEN 1 ELSE 0,
                  last_slash_slot |-> IF stakes[p] = 0 THEN ExecutedSlot
                                      ELSE 0,
                  unbonding_amount |-> 0,
                  unbonding_start |-> 0]
            ELSE NoPublisher]
       /\ feeds = [f \in Feeds |->
            IF f = 1
            THEN [NoFeed EXCEPT
                    !.created = TRUE,
                    !.publishers =
                        [i \in 1..MAX_PUBLISHERS |->
                            IF i \in AggregatePublishers
                            THEN [publisher |-> i, price |-> prices[i],
                                  confidence |-> 1,
                                  timestamp |-> now - ages[i],
                                  slot |-> written[i],
                                  stake |-> stakes[i], active |-> TRUE]
                            ELSE NoSubmission],
                    !.publisher_count = Cardinality(AggregatePublishers),
                    !.min_publishers = new_min,
                    !.last_update_slot =
                        IF \E p \in AggregatePublishers : ages[p] = 0
                        THEN ExecutedSlot + 1 ELSE ExecutedSlot,
                    !.exponent = -8]
            ELSE NoFeed]
       /\ tokens = [vault |-> SumSeq(registered),
                    wallet |-> [p \in Publishers |->
                                   IF p \in AggregatePublishers
                                   THEN InitialWallet - registered[p]
                                   ELSE InitialWallet]]
       /\ last = Called("execute_governance_action", Len(types), 1)

NextAggregate ==
    \/ \E dt \in {1, STALENESS_THRESHOLD - 1} :
          slot < ExecutedSlot + 1 + MaxAggregateTicks /\ Tick(dt)
    \/ aggregate_price(1)

SpecAggregate == InitAggregate /\ [][NextAggregate]_vars

\* the submissions an aggregation of this price account computes the
\* consensus over now: the fresh ones, by price, less the outliers
Survivors(price_account) ==
    filter_outliers_optimized(SortByPrice(FreshPrices(price_account, now)))

\* the run of aggregate_price on this price account now
Aggregated(price_account) == aggregate_prices_internal(price_account, now, slot)

\* the stake of the first k entries
CumulativeStake(prices, k) == SumSeq([i \in 1..k |-> prices[i].stake])

\* the price of the first entry at which the cumulative stake reaches target
PriceReaching(prices, target) ==
    LET k == CHOOSE i \in 1..Len(prices) :
                 /\ CumulativeStake(prices, i) >= target
                 /\ \A j \in 1..(i - 1) : CumulativeStake(prices, j) < target
    IN  prices[k].price

\* C12 as stated: the consensus price an aggregation writes is the price of
\* the first surviving entry, in ascending price order, whose cumulative
\* stake snapshot reaches ceil(total_stake / 2); survivors (99,5), (100,10),
\* (101,20) give 101.
C12_AsStated ==
    /\ calculate_stake_weighted_median_optimized(
           <<[price |-> 99, stake |-> 5], [price |-> 100, stake |-> 10],
             [price |-> 101, stake |-> 20]>>) = 101
    /\ \A f \in Created :
           LET s == Survivors(feeds[f])
               total_stake == SumSeq(Stakes(s))
           IN  Replaced(feeds[f], Aggregated(feeds[f])) =>
                   Aggregated(feeds[f]).aggregate.price =
                       PriceReaching(s, (total_stake + 1) \div 2)

\* the fresh submissions of a price account now, by price
FreshSet(price_account) == SortByPrice(FreshPrices(price_account, now))

\* the element at (0-based) index k of the numbers of s in ascending order
Ranked(s, k) ==
    CHOOSE d \in {s[i] : i \in 1..Len(s)} :
        /\ Cardinality({i \in 1..Len(s) : s[i] < d}) <= k
        /\ Cardinality({i \in 1..Len(s) : s[i] <= d}) > k

\* C13: for a fresh set of fewer than 3 submissions the MAD filter rejects
\* nothing; for a fresh set of n >= 3, with median the price at index n/2 of
\* the price-sorted set and MAD the element at index n/2 of the sorted
\* absolute deviations from it, the survivors are exactly the entries with
\* |price - median| <= 3 * MAD, in the same order.
C13_MadFilter ==
    \A f \in Created :
        LET F == FreshSet(feeds[f])
            n == Len(F)
            kept == filter_outliers_optimized(F)
        IN  /\ n < 3 => kept = F
            /\ n >= 3 =>
                 LET median == F[(n \div 2) + 1].price
                     MAD == Ranked([i \in 1..n |-> Abs(F[i].price - median)],
                                   n \div 2)
                 IN  /\ kept = SelectSeq(F, LAMBDA e :
                                   Abs(e.price - median) <= 3 * MAD)
                     /\ \A i \in 1..n :
                            (\A j \in 1..Len(kept) : kept[j] # F[i]) =>
                                Abs(F[i].price - median) > 3 * MAD

\* C13 witness: aggregate_price has just written a consensus over three
\* fresh submissions of which the filter rejected the one at 200
C13_Witness ==
    /\ last = Called("aggregate_price", 1, 0)
    /\ feeds[1].aggregate.timestamp = now
    /\ Len(FreshSet(feeds[1])) = 3
    /\ Len(Survivors(feeds[1])) = 2
    /\ \E i \in 1..3 : /\ FreshSet(feeds[1])[i].price = 200
                       /\ \A j \in 1..2 : Survivors(feeds[1])[j].price < 200

\* C14: whenever aggregation writes a new Aggregate, its price is the
\* submitted price of some entry of the surviving (post-outlier-filter) set
\* of that run, never a value no surviving publisher submitted.
C14_PriceIsASurvivorsPrice ==
    \A f \in Created :
        Replaced(feeds[f], Aggregated(feeds[f])) =>
            \E i \in 1..Len(Survivors(feeds[f])) :
                Survivors(feeds[f])[i].price =
                    Aggregated(feeds[f]).aggregate.price

\* C14 witness: aggregate_price has just written a consensus over survivors
\* with different prices, and it is the price of the highest-priced one
C14_Witness ==
    /\ last = Called("aggregate_price", 1, 0)
    /\ feeds[1].aggregate.timestamp = now
    /\ Len(Survivors(feeds[1])) >= 2
    /\ Survivors(feeds[1])[1].price < feeds[1].aggregate.price
    /\ Survivors(feeds[1])[Len(Survivors(feeds[1]))].price
           = feeds[1].aggregate.price

\* the sum over the entries of stake * (price - consensus)^2
WeightedSquares(prices, consensus) ==
    SumSeq([i \in 1..Len(prices) |->
               prices[i].stake * (prices[i].price - consensus)
                               * (prices[i].price - consensus)])

\* C15 as stated: every Aggregate an aggregation writes has confidence >= 1,
\* equal to max(1, floor(sqrt(sum_i stake_i * (price_i - consensus)^2
\* / sum_i stake_i))) over the surviving set (1 when the total stake is 0);
\* a feed's confidence is 0 only while it has never been aggregated.
C15_AsStated ==
    \A f \in Created :
        LET r == Aggregated(feeds[f])
            s == Survivors(feeds[f])
            total_stake == SumSeq(Stakes(s))
        IN  /\ Replaced(feeds[f], r) =>
                /\ r.aggregate.confidence >= 1
                /\ r.aggregate.confidence =
                       IF total_stake = 0 THEN 1
                       ELSE Max(1, Isqrt(WeightedSquares(s, r.aggregate.price)
                                         \div total_stake))
            /\ feeds[f].aggregate.confidence = 0 =>
                   feeds[f].ema.num_observations = 0

\* the newest fresh submission is more than HALTED_THRESHOLD old
NewestTooOld(F) == F # <<>> /\ now - MaxTimestamp(F) > HALTED_THRESHOLD

\* C16: for an aggregation at time now over the fresh set F (before the
\* outlier filter): the status is Halted only if |F| >= min_publishers and
\* now - max(timestamp in F) > 60; it is Unknown whenever
\* |F| < min_publishers, however old the newest fresh timestamp; and every
\* Aggregate written otherwise has status Trading.
C16_StatusOfWrittenAggregate ==
    \A f \in Created :
        LET r == Aggregated(feeds[f])
            F == FreshSet(feeds[f])
            enough == Len(F) >= feeds[f].min_publishers
        IN  /\ r.aggregate.status = "Halted" => enough /\ NewestTooOld(F)
            /\ ~enough => r.aggregate.status = "Unknown"
            /\ Replaced(feeds[f], r) /\ ~(enough /\ NewestTooOld(F)) =>
                   r.aggregate.status = "Trading"

\* C16 witness: aggregate_price has just written a Trading Aggregate over
\* three fresh submissions whose newest is a tick old, on a feed that needs
\* three
C16_Witness ==
    /\ last = Called("aggregate_price", 1, 0)
    /\ feeds[1].aggregate.timestamp = now
    /\ feeds[1].aggregate.status = "Trading"
    /\ feeds[1].min_publishers = 3
    /\ Len(FreshSet(feeds[1])) = 3
    /\ now - MaxTimestamp(FreshSet(feeds[1])) > 0

\* C17: over the successful aggregations of a feed, with consensus values
\* v_1, v_2, ...: after the first the EMA equals v_1 exactly with
\* num_observations = 1; after the k-th (k > 1),
\* ema_k = (100000 * v_k + 900000 * ema_{k-1}) div 1000000 for the price and
\* for the confidence separately, with num_observations = k; a run that ends
\* in Unknown, and any other operation, leaves the EMA as it was.
C17_Step ==
    \A f \in Created :
        LET before == feeds[f].ema
            after == feeds'[f].ema
            v == feeds'[f].aggregate
            wrote == /\ \/ last'.op = "aggregate_price"
                        \/ last'.op = "update_price" /\ last'.info = 1
                     /\ last'.id = f
                     /\ feeds'[f] # feeds[f]
                     /\ v.timestamp = now /\ v.slot = slot
                     /\ v.status # "Unknown"
        IN  /\ wrote => after.num_observations = before.num_observations + 1
            /\ ~wrote => after = before
            /\ v.status = "Unknown" => after = before
            /\ after.num_observations = before.num_observations + 1 =>
                 IF before.num_observations = 0
                 THEN /\ after.ema_price = v.price
                      /\ after.ema_confidence = v.confidence
                 ELSE /\ after.ema_price =
                             (100000 * v.price + 900000 * before.ema_price)
                             \div 1000000
                      /\ after.ema_confidence =
                             (100000 * v.confidence
                              + 900000 * before.ema_confidence) \div 1000000

C17_EmaRecurrence == [][C17_Step]_vars

\* C17 witness: the second successful aggregation has just blended the
\* consensus 200 into an EMA that the first had set to 100
C17_Witness ==
    /\ last.op \in {"update_price", "aggregate_price"}
    /\ feeds[1].ema.num_observations = 2
    /\ feeds[1].aggregate.price = 200
    /\ feeds[1].aggregate.timestamp = now
    /\ feeds[1].ema.ema_price = 110

\* the executed SlashPublisher proposals
SlashProposals ==
    {i \in ProposalIds : /\ proposals[i].executed
                         /\ proposals[i].proposal_type.tag = "SlashPublisher"}

\* once a slash would take more than the publisher has, applying it fails
C18_Inv ==
    /\ SlashAmount(1000, 10) = 100
    /\ \A i \in SlashProposals, q \in Registered :
           LET s == publishers[q].staked_amount
               p == proposals[i].proposal_type.percentage
           IN  (s * p) \div 100 > s =>
                   execute_governance_action_run(i, q).err = "Overflow"

\* a publisher's slash_count changes only by a slash that takes
\* floor(s * p / 100) from its stake and from total_staked
C18_Step ==
    \A q \in Registered :
        publishers'[q].slash_count # publishers[q].slash_count =>
            /\ last'.op = "execute_governance_action"
            /\ last'.id \in SlashProposals
            /\ last'.info = q
            /\ LET s == publishers[q].staked_amount
                   p == proposals[last'.id].proposal_type.percentage
                   slash_amount == (s * p) \div 100
               IN  /\ slash_amount <= s
                   /\ publishers'[q].staked_amount = s - slash_amount
                   /\ token_vault'.total_staked =
                          token_vault.total_staked - slash_amount
                   /\ publishers'[q].slash_count =
                          publishers[q].slash_count + 1

\* C18: applying an executed SlashPublisher proposal with percentage p to a
\* publisher with staked amount s takes slash_amount = floor(s * p / 100)
\* from staked_amount and from total_staked and adds exactly 1 to
\* slash_count (s = 1000, p = 10: 100, leaving 900); if slash_amount > s
\* (p > 100) the call fails and publisher and vault are unchanged.
C18_SlashArithmetic == []C18_Inv /\ [][C18_Step]_vars

\* C18 witness: publisher 2, staked at 20005, has just been slashed by a
\* tenth, rounded down to 2000, and the slash by 150% fails on it
C18_Witness ==
    /\ last = Called("execute_governance_action", 1, 2)
    /\ publishers[2].slash_count = 1
    /\ publishers[2].staked_amount = 2 * MIN_STAKE_AMOUNT + 5 - 2000
    /\ execute_governance_action_run(2, 2).err = "Overflow"

\* floor(total_supply * quorum_percentage / 100), as the claim computes it
QuorumThreshold ==
    (governance_state.total_supply * governance_state.quorum_percentage)
    \div 100

\* the proposals whose voting window is over
Closed == {i \in ProposalIds : slot > proposals[i].end_slot}

\* what execute_proposal answers after the voting window
C19_Inv ==
    /\ Quorum([total_supply |-> 1000000, quorum_percentage |-> 20]) = 200000
    /\ \A i \in Closed :
           LET pr == proposals[i]
               votes == pr.yes_votes + pr.no_votes + pr.abstain_votes
               err == execute_proposal_run(i).err
           IN  /\ err = "Ok" =>
                      votes >= QuorumThreshold /\ pr.yes_votes > pr.no_votes
               /\ ~pr.executed /\ votes < QuorumThreshold =>
                      err = "QuorumNotReached"
               /\ ~pr.executed /\ votes >= QuorumThreshold
                  /\ pr.yes_votes <= pr.no_votes =>
                      err = "ProposalNotApproved"

\* execution_time and executed change only for a proposal that has the
\* quorum and the majority
C19_Step ==
    \A i \in ProposalIds :
        LET pr == proposals[i]
            votes == pr.yes_votes + pr.no_votes + pr.abstain_votes
        IN  \/ proposals'[i].execution_time # pr.execution_time
            \/ proposals'[i].executed # pr.executed
            => /\ i \in Closed
               /\ votes >= QuorumThreshold
               /\ pr.yes_votes > pr.no_votes

\* C19: execute_proposal called after the voting window proceeds (arms or
\* executes) only if yes + no + abstain >= floor(total_supply *
\* quorum_percentage / 100) and yes > no strictly; otherwise it fails with
\* QuorumNotReached (votes below quorum) or ProposalNotApproved (yes <= no,
\* a tie included) and leaves execution_time and executed unchanged.  With
\* total_supply 1,000,000 and quorum 20% the threshold is 200,000 votes.
C19_QuorumAndMajority == []C19_Inv /\ [][C19_Step]_vars

\* C19 witness: after the window, a proposal with as many Yes as No votes
\* has the quorum of 200,000 and is refused for the tie, while another has
\* just been armed
C19_Witness ==
    /\ last.op = "execute_proposal" /\ last.info = 1
    /\ QuorumThreshold = 200000
    /\ \E i \in Closed :
           /\ proposals[i].yes_votes = proposals[i].no_votes
           /\ proposals[i].yes_votes > 0
           /\ TotalVotes(proposals[i]) >= QuorumThreshold
           /\ execute_proposal_run(i).err = "ProposalNotApproved"
           /\ proposals[i].execution_time = 0

\* execute_proposal refuses the proposal for its votes now, and has never
\* armed it
Rejected(i) ==
    /\ i \in Closed
    /\ ~proposals[i].executed
    /\ proposals[i].execution_time = 0
    /\ execute_proposal_run(i).err \in {"QuorumNotReached",
                                       "ProposalNotApproved"}

\* C20 as stated: Rejected is terminal: once execute_proposal, called after
\* a proposal's voting window, fails its quorum or majority check, the
\* proposal stays refused, with execution_time unarmed and executed false,
\* whatever operation, applying another governance proposal included,
\* occurs next.  (execute_proposal is always callable, so a proposal that
\* leaves Rejected unarmed is armed by the next call.)
C20_AsStated ==
    [][\A i \in ProposalIds : Rejected(i) => Rejected(i)']_vars

\* the yes, no and abstain tallies of a proposal
Tallies(pr) == <<pr.yes_votes, pr.no_votes, pr.abstain_votes>>

\* a vote is accepted only up to end_slot, an execute_proposal only after it
C21_Inv ==
    \A i \in ProposalIds :
        /\ vote_proposal_run(i).err = "Ok" <=> slot <= proposals[i].end_slot
        /\ execute_proposal_run(i).err = "Ok" => slot > proposals[i].end_slot
        /\ proposals[i].execution_time # 0 \/ proposals[i].executed =>
               vote_proposal_run(i).err = "VotingPeriodEnded"

\* the clock does not go back; tallies change only inside the window of a
\* proposal no execute_proposal has been accepted for, and not at all once
\* one has
C21_Step ==
    /\ slot' >= slot
    /\ \A i \in ProposalIds :
           /\ Tallies(proposals'[i]) # Tallies(proposals[i]) =>
                  /\ slot <= proposals[i].end_slot
                  /\ proposals[i].execution_time = 0
                  /\ ~proposals[i].executed
           /\ proposals[i].execution_time # 0 =>
                  Tallies(proposals'[i]) = Tallies(proposals[i])
           /\ proposals'[i].end_slot = proposals[i].end_slot

\* C21: voting and execution never overlap: vote_proposal succeeds only
\* while slot <= end_slot (inclusive) and execute_proposal only while
\* slot > end_slot, so with a clock that does not go back no vote is tallied
\* after the first accepted execute_proposal, and the tallies checked at
\* arming are the tallies at execution.
C21_VotingThenExecution == []C21_Inv /\ [][C21_Step]_vars

\* C21 witness: a proposal voted on in the slot that is its end_slot has
\* just been executed with those tallies, and a vote on it is refused
C21_Witness ==
    \E i \in ProposalIds :
        /\ last = Called("execute_proposal", i, 0)
        /\ proposals[i].executed
        /\ proposals[i].start_slot = proposals[i].end_slot
        /\ TotalVotes(proposals[i]) > 0
        /\ vote_proposal_run(i).err = "VotingPeriodEnded"

(***************************************************************************)
(* Governed actions: governance has executed one proposal of every type,   *)
(* and a further slashing proposal has been created but not voted on.      *)
(* Publishers register and submit, the authority and others pause and      *)
(* unpause, and anyone applies the proposals, any number of times.         *)
(***************************************************************************)
ActionsProposalTypes ==
    <<UpdateRewardRate(InitRewardRate + 1), UpdateMinPublishers(1, 2),
      EmergencyPause, EmergencyUnpause,
      UpdateGovernanceParams({}, {}, {InitQuorumPercentage + 30}, {}),
      SlashPublisher(1, 10)>>

\* the Proposal account after create_proposal at GenesisSlot
CreatedProposal(id, proposal_type) ==
    [proposal_type |-> proposal_type,
     yes_votes |-> 0, no_votes |-> 0, abstain_votes |-> 0,
     start_slot |-> GenesisSlot,
     end_slot |-> GenesisSlot + InitVotingPeriod,
     executed |-> FALSE,
     execution_time |-> 0,
     proposal_id |-> id]

InitActions ==
    /\ now = ExecutedTime
    /\ slot = ExecutedSlot
    /\ global_state = [authority |-> "authority", paused |-> FALSE,
                       total_products |-> 0, total_publishers |-> 0]
    /\ token_vault = [total_staked |-> 0, total_rewards_distributed |-> 0,
                      reward_rate |-> InitRewardRate,
                      last_distribution_slot |-> GenesisSlot]
    /\ governance_state = [proposal_threshold |-> InitProposalThreshold,
                           voting_period |-> InitVotingPeriod,
                           quorum_percentage |-> InitQuorumPercentage,
                           timelock_duration |-> InitTimelockDuration,
                           proposal_count |-> Len(ActionsProposalTypes) + 1,
                           total_supply |-> InitTotalSupply]
    /\ proposals =
           [i \in 1..Len(ActionsProposalTypes) |->
               ExecutedProposal(i - 1, ActionsProposalTypes[i])]
           \o <<CreatedProposal(Len(ActionsProposalTypes),
                                SlashPublisher(1, 50))>>
    /\ publishers = [p \in Publishers |-> NoPublisher]
    /\ feeds = [f \in Feeds |-> NoFeed]
    /\ tokens = [vault |-> 0, wallet |-> [p \in Publishers |-> InitialWallet]]
    /\ last = Called("execute_proposal", Len(ActionsProposalTypes), 0)

ActionsPublishers == 1..2

NextActions ==
    \/ \E p \in ActionsPublishers :
          p = global_state.total_publishers + 1
          /\ add_publisher(p, 2 * MIN_STAKE_AMOUNT)
    \/ unstake_tokens(1, MIN_STAKE_AMOUNT)
    \/ create_product(1, 1, -8)
    \/ update_price(1, 1, 100, 1)
    \/ \E i \in ProposalIds, f \in {NoAccount, 1},
          q \in {NoAccount} \cup ActionsPublishers :
          execute_governance_action(i, f, q)
    \/ \E c \in Callers : emergency_pause(c)
    \/ \E c \in Callers : emergency_unpause(c)

SpecActions == InitActions /\ [][NextActions]_vars

\* the instruction that just ran applied an executed proposal of this type
Via(tag) ==
    /\ last'.op = "execute_governance_action"
    /\ proposals[last'.id].executed
    /\ proposals[last'.id].proposal_type.tag = tag

GovernanceParams(g) ==
    <<g.proposal_threshold, g.voting_period, g.quorum_percentage,
      g.timelock_duration>>

Pending == {i \in ProposalIds : ~proposals[i].executed}

C22_Inv ==
    \A i \in Pending, q \in {NoAccount} \cup Registered :
        /\ execute_governance_action_run(i, q).err = "ProposalNotApproved"
        /\ ~execute_governance_action_run(i, q).dirty

C22_Step ==
    /\ token_vault'.reward_rate # token_vault.reward_rate
           => Via("UpdateRewardRate")
    /\ \A f \in Feeds :
           feeds[f].created
           /\ feeds'[f].min_publishers # feeds[f].min_publishers
               => Via("UpdateMinPublishers")
    /\ GovernanceParams(governance_state') # GovernanceParams(governance_state)
           => Via("UpdateGovernanceParams")
    /\ \A p \in Publishers :
           publishers[p].registered
           /\ publishers'[p].slash_count # publishers[p].slash_count
               => /\ Via("SlashPublisher")
                  /\ publishers'[p].slash_count = publishers[p].slash_count + 1
                  /\ publishers'[p].staked_amount <= publishers[p].staked_amount
    /\ \A i \in Pending : last'.op = "execute_governance_action"
                             => last'.id # i \/ last' = last

\* C22: the reward rate, a feed's min_publishers, the governance parameters
\* and a publisher's slash count change only in a step of
\* execute_governance_action on a proposal whose executed flag is set and
\* whose type is the matching one; on a proposal that was not executed the
\* call fails with ProposalNotApproved before writing anything.
C22_PrivilegedOnlyByExecutedProposal == []C22_Inv /\ [][C22_Step]_vars

\* every kind of privileged change has been made while a proposal is pending
C22_Witness ==
    /\ Pending # {}
    /\ token_vault.reward_rate # InitRewardRate
    /\ governance_state.quorum_percentage # InitQuorumPercentage
    /\ \E f \in Feeds : feeds[f].created /\ feeds[f].min_publishers = 2
    /\ \E p \in Publishers : publishers[p].slash_count > 0
    /\ last.op = "execute_governance_action"

PauseGated ==
    {"create_product", "add_publisher", "update_price", "stake_tokens",
     "unstake_tokens"}

StakeAmounts == {0, MIN_STAKE_AMOUNT - 1, MIN_STAKE_AMOUNT, InitialWallet + 1}

C23_Inv ==
    global_state.paused =>
        /\ create_product_run = Fail("SystemPaused")
        /\ \A p \in Publishers, a \in StakeAmounts :
               /\ add_publisher_run(p, a) = Fail("SystemPaused")
               /\ stake_tokens_run(p, a) = Fail("SystemPaused")
               /\ unstake_tokens_run(p, a) = Fail("SystemPaused")
        /\ \A p \in Publishers, f \in Created, price \in {0, 100} :
               update_price_run(p, f, price) = Fail("SystemPaused")
        /\ \A p \in Registered :
               /\ withdraw_unbonded_run(p).err = "UnbondingPeriodActive"
                     <=> now - publishers[p].unbonding_start < UNBONDING_PERIOD
               /\ now - publishers[p].unbonding_start >= UNBONDING_PERIOD
                  /\ publishers[p].unbonding_amount > 0
                     => withdraw_unbonded_run(p) = Done

C23_Step == global_state.paused => last'.op \notin PauseGated

\* C23: while global_state.paused is set, create_product, add_publisher,
\* update_price, stake_tokens and unstake_tokens return SystemPaused before
\* writing anything, whatever their arguments, and none of them is the
\* instruction of a step; withdraw_unbonded is refused only by its timing
\* requirement and pays out a pending amount once the period has passed.
C23_PauseGate == []C23_Inv /\ [][C23_Step]_vars

\* a withdrawal has been paid while the program is paused
C23_Witness ==
    /\ global_state.paused
    /\ last.op = "withdraw_unbonded"
    /\ Created # {}
    /\ \E p \in Registered : unstake_tokens_run(p, 0) = Fail("SystemPaused")

Strangers == Callers \ {global_state.authority}

C24_Inv ==
    /\ emergency_pause_run(global_state.authority) = Done
    /\ emergency_unpause_run(global_state.authority) = Done
    /\ \A c \in Strangers :
           /\ emergency_pause_run(c) = Fail("ConstraintRaw")
           /\ emergency_unpause_run(c) = Fail("ConstraintRaw")

C24_Step ==
    global_state'.paused # global_state.paused =>
        \/ last'.op = "emergency_pause" /\ global_state'.paused
        \/ last'.op = "emergency_unpause" /\ ~global_state'.paused
        \/ Via("EmergencyPause") /\ global_state'.paused
        \/ Via("EmergencyUnpause") /\ ~global_state'.paused

NetDeposit(p) == InitialWallet - tokens.wallet[p]

\* the step is a successful unstake_tokens of publisher p
Unstaked(p) ==
    /\ publishers[p].registered
    /\ publishers'[p].staked_amount < publishers[p].staked_amount
    /\ publishers'[p].slash_count = publishers[p].slash_count

\* the step is a successful withdraw_unbonded of publisher p
Withdrew(p) == tokens'.wallet[p] > tokens.wallet[p]

C25_Inv ==
    \A p \in Registered :
        withdraw_unbonded_run(p).err = "Ok"
            => /\ now >= publishers[p].unbonding_start + UNBONDING_PERIOD
               /\ publishers[p].unbonding_amount > 0

C25_Step ==
    \A p \in Publishers :
        /\ Unstaked(p) =>
              /\ publishers'[p].unbonding_amount =
                     publishers[p].staked_amount - publishers'[p].staked_amount
              /\ publishers'[p].unbonding_start = now
              /\ withdraw_unbonded_run(p)'.err = "UnbondingPeriodActive"
        /\ Withdrew(p) =>
              /\ tokens'.wallet[p] - tokens.wallet[p] =
                     publishers[p].unbonding_amount
              /\ publishers'[p].unbonding_amount = 0
              /\ publishers'[p].staked_amount = publishers[p].staked_amount

\* C25: a publisher has one unbonding request: every successful
\* unstake_tokens(a) sets unbonding_amount to a, whatever was pending, and
\* unbonding_start to the time of the call; withdraw_unbonded is accepted
\* only UNBONDING_PERIOD after the latest unstake_tokens and pays exactly
\* the unbonding_amount that call stored.
C25_SingleUnbondingRequest == []C25_Inv /\ [][C25_Step]_vars

\* a second request has replaced one that was still pending (the stake,
\* never slashed, and the pending amount no longer add up to the net
\* deposit), and the period of the first has passed but not the second's
C25_Witness ==
    /\ publishers[1].registered /\ publishers[1].slash_count = 0
    /\ publishers[1].unbonding_amount > 0
    /\ publishers[1].staked_amount + publishers[1].unbonding_amount
           < NetDeposit(1)
    /\ publishers[1].unbonding_start > ExecutedTime
    /\ publishers[1].unbonding_start < ExecutedTime + UNBONDING_PERIOD
    /\ now >= ExecutedTime + UNBONDING_PERIOD
    /\ withdraw_unbonded_run(1).err = "UnbondingPeriodActive"

(***************************************************************************)
(* Stake snapshots: two publishers submit different prices to one feed     *)
(* while the first one stakes, unstakes, withdraws and is slashed.         *)
(***************************************************************************)
SnapshotProposalTypes == <<SlashPublisher(1, 50)>>

InitSnapshot == AfterGovernance(SnapshotProposalTypes)

SnapshotPublishers == 1..2

NextSnapshot ==
    \/ slot < ExecutedSlot + MaxSnapshotTicks /\ Tick(UNBONDING_PERIOD)
    \/ \E p \in SnapshotPublishers :
          p = global_state.total_publishers + 1
          /\ add_publisher(p, 2 * MIN_STAKE_AMOUNT)
    \/ stake_tokens(1, MIN_STAKE_AMOUNT)
    \/ unstake_tokens(1, MIN_STAKE_AMOUNT)
    \/ withdraw_unbonded(1)
    \/ execute_governance_action(1, NoAccount, 1)
    \/ create_product(1, 2, -8)
    \/ \E p \in SnapshotPublishers : update_price(p, 1, 98 + p, 1)
    \/ aggregate_price(1)

SpecSnapshot == InitSnapshot /\ [][NextSnapshot]_vars

\* the table entries of a price account
Entries == 1..MAX_PUBLISHERS

C26_Inv ==
    \A f \in Created :
        Replaced(feeds[f], Aggregated(feeds[f])) =>
            Aggregated(feeds[f]).aggregate.price =
                PriceReaching(Survivors(feeds[f]),
                              SumSeq(Stakes(Survivors(feeds[f]))) \div 2)

C26_Step ==
    \A f \in Created, k \in Entries :
        feeds'[f].publishers[k] # feeds[f].publishers[k] =>
            /\ last'.op = "update_price" /\ last'.id = f
            /\ publishers' = publishers
            /\ feeds'[f].publishers[k].stake =
                   publishers[feeds'[f].publishers[k].publisher].staked_amount
            /\ feeds[f].publishers[k].active =>
                   feeds'[f].publishers[k].publisher =
                       feeds[f].publishers[k].publisher

\* C26: the stake stored with a submission is the publisher's staked_amount
\* at the time of that update_price: a table entry changes only in a step
\* of update_price by the entry's publisher, so stake_tokens, unstake_tokens,
\* withdraw_unbonded and a slash leave it as it is, and the consensus price
\* is the weighted median over the stored stakes.
C26_StakeSnapshot == []C26_Inv /\ [][C26_Step]_vars

\* an aggregation has just weighted publisher 1's submission with the stake
\* stored before the publisher unstaked or was slashed, and the consensus is
\* publisher 1's price, which the live stake would not have carried
C26_Witness ==
    /\ last.op \in {"update_price", "aggregate_price"}
    /\ feeds[1].aggregate.timestamp = now
    /\ Len(Survivors(feeds[1])) = 2
    /\ \E k \in Entries :
          /\ feeds[1].publishers[k].active
          /\ feeds[1].publishers[k].publisher = 1
          /\ feeds[1].publishers[k].stake = 2 * MIN_STAKE_AMOUNT
          /\ publishers[1].staked_amount = MIN_STAKE_AMOUNT
    /\ publishers[2].staked_amount = 2 * MIN_STAKE_AMOUNT
    /\ feeds[1].aggregate.price = 99

\* how much later than now an aggregation may run
Delays ==
    {0, 1, STALENESS_THRESHOLD - 1, STALENESS_THRESHOLD,
     HALTED_THRESHOLD, HALTED_THRESHOLD + 1, UNBONDING_PERIOD}

\* C27: the status of a feed's Aggregate is Unknown or Trading in every
\* reachable state, and an aggregation run on the feed now or any time
\* later leaves it so: the newest of the submissions passed to
\* determine_status_optimized is younger than STALENESS_THRESHOLD, so never
\* older than HALTED_THRESHOLD.
C27_NeverHalted ==
    \A f \in Created :
        /\ feeds[f].aggregate.status \in {"Unknown", "Trading"}
        /\ \A dt \in Delays :
               aggregate_prices_internal(feeds[f], now + dt, slot)
                   .aggregate.status \in {"Unknown", "Trading"}

\* aggregate_price has run on a feed that traded, with enough submissions
\* in the table and the newest of them older than HALTED_THRESHOLD
C27_Witness ==
    /\ last = Called("aggregate_price", 1, 0)
    /\ feeds[1].publisher_count >= feeds[1].min_publishers
    /\ \A k \in Entries :
          feeds[1].publishers[k].active
              => now - feeds[1].publishers[k].timestamp > HALTED_THRESHOLD
    /\ feeds[1].aggregate.price > 0
    /\ feeds[1].aggregate.status = "Unknown"

\* the step applies proposal i
Applies(i) == last'.op = "execute_governance_action" /\ last'.id = i

\* the last instruction applied proposal i and wrote what the proposal is
\* about (for a slash or a new min_publishers, the account was passed)
TookEffect(i) ==
    /\ last.op = "execute_governance_action" /\ last.id = i
    /\ proposals[i].proposal_type.tag \in {"SlashPublisher", "UpdateMinPublishers"}
           => last.info # NoAccount

\* C28 as stated: once execute_governance_action has applied a proposal, a
\* further execute_governance_action for the same proposal changes nothing:
\* no account differs after it; in particular it slashes nobody.
C28_AsStated ==
    [][\A i \in ProposalIds :
          TookEffect(i) /\ Applies(i)
              => UNCHANGED <<token_vault, feeds, global_state,
                             governance_state, publishers>>]_vars

\* C29 as stated, for the publishers that were never slashed: what a
\* publisher paid in (its initial stake and its stake_tokens amounts) less
\* what withdraw_unbonded paid back is its staked_amount plus its
\* unbonding_amount.
C29_AsStated ==
    \A p \in Registered :
        publishers[p].slash_count = 0 =>
            NetDeposit(p) =
                publishers[p].staked_amount + publishers[p].unbonding_amount

\* the price account after update_price(price, 1) by publisher p at the
\* present clock reading, and the account unchanged if the call fails
Landed(feed, p, price) ==
    IF global_state.paused \/ ~(price > 0) \/ ~(now > 0)
       \/ TargetSlot(feed, p) = 0
    THEN feed
    ELSE LET written == Submitted(feed, p, price, 1)
         IN  IF Triggers(written)
             THEN aggregate_prices_internal(written, now, slot)
             ELSE written

\* both calls are accepted, whichever comes first
BothLand(feed, a, pa, b, pb) ==
    /\ TargetSlot(feed, a) # 0 /\ TargetSlot(Landed(feed, a, pa), b) # 0
    /\ TargetSlot(feed, b) # 0 /\ TargetSlot(Landed(feed, b, pb), a) # 0

Quote(aggregate) ==
    <<aggregate.price, aggregate.confidence, aggregate.status,
      aggregate.timestamp>>

\* C30 as stated: for two different registered publishers whose update_price
\* calls on one feed are both accepted at the same clock reading, the
\* Aggregate (price, confidence, status, timestamp) after the two calls is
\* the same whichever call comes first.
C30_AsStated ==
    \A f \in Created, a \in Registered, b \in Registered :
        \A pa \in AggregatePrices, pb \in AggregatePrices :
            a < b /\ BothLand(feeds[f], a, pa, b, pb) =>
                Quote(Landed(Landed(feeds[f], a, pa), b, pb).aggregate) =
                Quote(Landed(Landed(feeds[f], b, pb), a, pa).aggregate)

\* C31 as stated: a step of execute_governance_action for a
\* SlashPublisher{publisher: P} proposal leaves every publisher other than
\* P as it was, and one for an UpdateMinPublishers{feed: F} proposal leaves
\* every feed other than F as it was.
C31_AsStated ==
    [][\A i \in ProposalIds :
          Applies(i) =>
              LET pt == proposals[i].proposal_type
              IN  /\ pt.tag = "SlashPublisher" =>
                        \A p \in Publishers \ {pt.publisher} :
                            publishers'[p] = publishers[p]
                  /\ pt.tag = "UpdateMinPublishers" =>
                        \A f \in Feeds \ {pt.feed} :
                            feeds'[f] = feeds[f]]_vars

(***************************************************************************)
(* Completion: a proposal is created, voted on and executed while the      *)
(* governance parameters stay as initialized.  The clock keeps advancing   *)
(* as long as a voting window is open or a timelock is running, and every  *)
(* execute_proposal call that would change the proposal is made in the end.*)
(***************************************************************************)
\* a voting window is open or a timelock has not expired yet
Waiting ==
    \E i \in ProposalIds :
        \/ slot <= proposals[i].end_slot
        \/ proposals[i].execution_time # 0 /\ ~proposals[i].executed
           /\ now < proposals[i].execution_time

TickLive == \E dt \in {1, InitTimelockDuration} :
                (slot < MaxSlot \/ Waiting) /\ Tick(dt)

NextLive ==
    \/ TickLive
    \/ proposals = <<>>
       /\ create_proposal(InitProposalThreshold,
                           UpdateRewardRate(InitRewardRate + 1))
    \/ \E i \in 1..MaxProposals, v \in VoteTypes :
          vote_proposal(i, v, VoteWeight)
    \/ \E i \in 1..MaxProposals : execute_proposal(i)

SpecLive ==
    /\ Init /\ [][NextLive]_vars
    /\ WF_vars(TickLive)
    /\ \A i \in 1..MaxProposals : WF_vars(execute_proposal(i))

\* the voting window of proposal i is closed with the quorum met and more
\* yes than no votes
Passed(i) ==
    /\ i \in ProposalIds
    /\ slot > proposals[i].end_slot
    /\ Approved(i)

Completed(i) == i \in ProposalIds /\ proposals[i].executed

\* C32: with the governance parameters unchanged, the clock advancing and
\* execute_proposal called again and again, every proposal whose voting
\* window closed with the quorum met and yes > no is eventually executed;
\* no armed proposal stays unexecutable.
C32_ApprovedIsCompleted ==
    \A i \in 1..MaxProposals : Passed(i) ~> Completed(i)

\* a proposal that passed was armed, waited out its timelock through ticks
\* of one second and was executed
C32_Witness ==
    \E i \in ProposalIds :
        /\ last = Called("execute_proposal", i, 0)
        /\ proposals[i].executed
        /\ Approved(i)
        /\ now = proposals[i].execution_time
        /\ slot >= proposals[i].end_slot + InitTimelockDuration

=============================================================================
